---------------------------- MODULE Spec2Model ----------------------------
(***************************************************************************)
(* Model of the print kiosk server (src/server.js, Ghostscript revision,   *)
(* lines 415-875) and of its browser clients (src/public/app.js,           *)
(* src/public/cost.js).                                                    *)
(*                                                                         *)
(* Strings are sequences of one-character strings, so that the string      *)
(* operations of the code (replace, startsWith, Number, path.parse) are    *)
(* computed as the code computes them.  A cached image is a sequence of    *)
(* pixel rows, a pixel a triple <<r, g, b>>.                               *)
(***************************************************************************)
EXTENDS Integers, Sequences, FiniteSets, TLC

(***************************************************************************)
(* Bounds of the model.                                                    *)
(***************************************************************************)
MaxUploads == 2      \* upload requests
MaxCosts == 2        \* cost requests
MaxDeletes == 1      \* cleanup requests
MaxRequests == 3     \* requests in all
MaxInFlight == 2     \* requests handled at the same time
MaxUploadsInFlight == 1  \* uploads handled at the same time
MaxPages == 2        \* pages of an uploaded PDF
MaxClock == 1        \* values of Date.now()
MaxListed == 3       \* files of a partition listed by a lookup checked on its own
MaxOutputs == 2      \* files a rasterization adapter checked on its own finds
MaxScanHeight == 25  \* rows of an image scanned on its own
MaxScanWidth == 2    \* columns of an image scanned on its own
MaxTokens == 2       \* comma-separated tokens of the page selection field
MaxTotalPages == 10  \* pages of the document the client has uploaded
MaxRows == 2         \* rows of the Transactions table
MaxSourcePages == 2  \* pages of a document normalized on its own
MaxSubmits == 2      \* uploads the page awaits at the same time
MaxResets == 2       \* resets the page awaits at the same time

(***************************************************************************)
(* Characters and JavaScript string helpers.                               *)
(***************************************************************************)
DigitChars == <<"0", "1", "2", "3", "4", "5", "6", "7", "8", "9">>

IsDigit(c) == \E i \in 1..10 : DigitChars[i] = c

DigitValue(c) == (CHOOSE i \in 1..10 : DigitChars[i] = c) - 1

IsLetter(c) == c \in {"a", "b", "c", "d", "f", "g", "n", "p", "w", "x", "A", "Z"}

IsSpace(c) == c = " "

\* String(n) of a non-negative integer: decimal, no padding.
RECURSIVE NatToStr(_)
NatToStr(n) ==
    IF n < 10 THEN <<DigitChars[n + 1]>>
    ELSE NatToStr(n \div 10) \o <<DigitChars[(n % 10) + 1]>>

StartsWith(s, p) ==
    /\ Len(p) <= Len(s)
    /\ SubSeq(s, 1, Len(p)) = p

EndsWith(s, p) ==
    /\ Len(p) <= Len(s)
    /\ SubSeq(s, Len(s) - Len(p) + 1, Len(s)) = p

\* 0 when p does not occur in s, else the first position where it occurs.
IndexOf(s, p) ==
    LET hits == {i \in 1..(Len(s) - Len(p) + 1) : SubSeq(s, i, i + Len(p) - 1) = p}
    IN  IF hits = {} THEN 0 ELSE CHOOSE i \in hits : \A j \in hits : i <= j

\* s.replace(p, r) with a string pattern: the first occurrence only.
ReplaceFirst(s, p, r) ==
    LET i == IndexOf(s, p)
    IN  IF i = 0 THEN s
        ELSE SubSeq(s, 1, i - 1) \o r \o SubSeq(s, i + Len(p), Len(s))

\* The character class [a-zA-Z0-9_\-] of the sanitizing patterns, with "." added
\* when withDot (the upload file name's pattern also keeps dots).
IsSafeChar(c, withDot) ==
    \/ IsLetter(c)
    \/ IsDigit(c)
    \/ c \in {"_", "-"}
    \/ (withDot /\ c = ".")

\* s.replace(/[^a-zA-Z0-9_\-]/g, '') and s.replace(/[^a-zA-Z0-9_\-\.]/g, '')
RECURSIVE StripUnsafe(_, _)
StripUnsafe(s, withDot) ==
    IF s = <<>> THEN <<>>
    ELSE (IF IsSafeChar(Head(s), withDot) THEN <<Head(s)>> ELSE <<>>)
         \o StripUnsafe(Tail(s), withDot)

\* s.replace(/\s+/g, '_'): every run of whitespace becomes one underscore.
RECURSIVE ReplaceSpaceRuns(_)
ReplaceSpaceRuns(s) ==
    IF s = <<>> THEN <<>>
    ELSE IF IsSpace(Head(s))
         THEN IF Len(s) > 1 /\ IsSpace(s[2])
              THEN ReplaceSpaceRuns(Tail(s))
              ELSE <<"_">> \o ReplaceSpaceRuns(Tail(s))
         ELSE <<Head(s)>> \o ReplaceSpaceRuns(Tail(s))

\* s.trim()
RECURSIVE TrimLeft(_)
TrimLeft(s) == IF s # <<>> /\ IsSpace(Head(s)) THEN TrimLeft(Tail(s)) ELSE s

RECURSIVE TrimRight(_)
TrimRight(s) ==
    IF s # <<>> /\ IsSpace(s[Len(s)]) THEN TrimRight(SubSeq(s, 1, Len(s) - 1)) ELSE s

Trim(s) == TrimRight(TrimLeft(s))

\* s.split(',')
RECURSIVE SplitComma(_)
SplitComma(s) ==
    LET i == IndexOf(s, <<",">>)
    IN  IF i = 0 THEN <<s>>
        ELSE <<SubSeq(s, 1, i - 1)>> \o SplitComma(SubSeq(s, i + 1, Len(s)))

(***************************************************************************)
(* JavaScript numbers: an integer, or NaN.                                 *)
(***************************************************************************)
NaN == [nan |-> TRUE, v |-> 0]

Num(n) == [nan |-> FALSE, v |-> n]

RECURSIVE DigitsValue(_)
DigitsValue(s) ==
    IF s = <<>> THEN 0
    ELSE 10 * DigitsValue(SubSeq(s, 1, Len(s) - 1)) + DigitValue(s[Len(s)])

AllDigits(s) == s # <<>> /\ \A i \in 1..Len(s) : IsDigit(s[i])

\* Number(s) of a string: surrounding whitespace is ignored, the empty string
\* is 0, an optionally signed run of digits (with an optional trailing ".")
\* is that integer, and every other string of the model's alphabet is NaN.
StrToNumber(s) ==
    LET t == Trim(s)
        u == IF t # <<>> /\ t[Len(t)] = "." /\ Len(t) > 1
             THEN SubSeq(t, 1, Len(t) - 1) ELSE t
    IN  IF t = <<>> THEN Num(0)
        ELSE IF AllDigits(u) THEN Num(DigitsValue(u))
        ELSE IF Head(u) \in {"-", "+"} /\ AllDigits(Tail(u))
             THEN Num((IF Head(u) = "-" THEN -1 ELSE 1) * DigitsValue(Tail(u)))
        ELSE NaN

(***************************************************************************)
(* Paths and file names.                                                   *)
(***************************************************************************)
PNG == <<".", "p", "n", "g">>

BWPNG == <<".", "b", "w", ".", "p", "n", "g">>

LastIndexOfChar(s, c) ==
    LET hits == {i \in 1..Len(s) : s[i] = c}
    IN  IF hits = {} THEN 0 ELSE CHOOSE i \in hits : \A j \in hits : j <= i

\* path.basename(p): what follows the last "/".
PathBasename(p) == SubSeq(p, LastIndexOfChar(p, "/") + 1, Len(p))

\* path.parse(p).name: the base name without its last extension; a dot that
\* starts the base name does not start an extension.
PathParseName(p) ==
    LET b == PathBasename(p)
        d == LastIndexOfChar(b, ".")
    IN  IF d <= 1 THEN b ELSE SubSeq(b, 1, d - 1)

\* multer's filename callback: Date.now() + '-' + the sanitized original name.
SafeFilename(now, originalname) ==
    NatToStr(now) \o <<"-">>
        \o StripUnsafe(ReplaceSpaceRuns(PathBasename(originalname)), TRUE)

\* The upload handler's baseName of a stored file name.
UploadBaseName(filename) == PathParseName(filename)

\* Ghostscript's output pattern `${baseName}_%d.png` for page n.
PageFileName(baseName, n) == baseName \o <<"_">> \o NatToStr(n) \o PNG

ResizedPdfName(baseName, paper) ==
    baseName \o <<"_">> \o (IF paper = "letter" THEN <<"l", "e", "t", "t", "e", "r">>
                            ELSE <<"l", "e", "g", "a", "l">>) \o <<".", "p", "d", "f">>

\* /delete-last: String(req.params.baseName || '').replace(/[^a-zA-Z0-9_\-]/g, '')
SanitizeBaseName(raw) == StripUnsafe(raw, FALSE)

(***************************************************************************)
(* Images.  An image is a sequence of rows of pixels <<r, g, b>>.          *)
(***************************************************************************)
ImgHeight == 2
ImgWidth == 1

White == <<255, 255, 255>>

Red == <<255, 0, 0>>

\* The image Ghostscript renders for page n of the uploaded documents: the
\* first n rows of page n hold coloured content, the rows below are white.
RenderedPage(n) ==
    [y \in 1..ImgHeight |-> [x \in 1..ImgWidth |-> IF y <= n THEN Red ELSE White]]

\* sharp's greyscale(): every pixel becomes three identical luminance channels.
Luma(px) == (2 * px[1] + 7 * px[2] + px[3]) \div 10

Greyscale(img) ==
    [y \in 1..Len(img) |->
        [x \in 1..Len(img[y]) |->
            <<Luma(img[y][x]), Luma(img[y][x]), Luma(img[y][x])>>]]

\* img.raw().toBuffer(): the rows' channels one after the other.
RECURSIVE FlattenRow(_)
FlattenRow(row) ==
    IF row = <<>> THEN <<>> ELSE Head(row) \o FlattenRow(Tail(row))

RECURSIVE RawBuffer(_)
RawBuffer(img) ==
    IF img = <<>> THEN <<>> ELSE FlattenRow(Head(img)) \o RawBuffer(Tail(img))

\* rawBuffer[idx] (0-based); -1 stands for undefined, past the buffer's end.
BufAt(buf, idx) == IF idx + 1 <= Len(buf) THEN buf[idx + 1] ELSE -1

Bands == 12

\* A band end that never reaches past (i + 1) * sectionHeight.
YEndEven(i, sectionHeight, height) == (i + 1) * sectionHeight

\* Line 593: the row after the last row of band i.
YEnd(i, sectionHeight, height) ==
    IF i = Bands - 1 THEN height ELSE (i + 1) * sectionHeight

\* scanUsedSections: the number of the 12 bands that hold a pixel whose
\* channels differ.
ScanUsedSections(img) ==
    LET height == Len(img)
        width == IF height = 0 THEN 0 ELSE Len(img[1])
        rawBuffer == RawBuffer(img)
        sectionHeight == IF height \div Bands < 1 THEN 1 ELSE height \div Bands
        yStart(i) == i * sectionHeight
        yEnd(i) == YEnd(i, sectionHeight, height)
        PixelUsed(y, x) ==
            LET idx == y * width * 3 + x * 3
            IN  ~(BufAt(rawBuffer, idx) = BufAt(rawBuffer, idx + 1)
                  /\ BufAt(rawBuffer, idx + 1) = BufAt(rawBuffer, idx + 2))
        used(i) == \E y \in yStart(i)..(yEnd(i) - 1) : \E x \in 0..(width - 1) : PixelUsed(y, x)
    IN  Cardinality({i \in 0..(Bands - 1) : used(i)})

(***************************************************************************)
(* The cost endpoint's pure parts.                                         *)
(***************************************************************************)
\* A JSON value of the request body's copies field: absent, a number or a
\* string.
NoValue == [t |-> "none", n |-> 0, s |-> <<>>]

NumValue(n) == [t |-> "num", n |-> n, s |-> <<>>]

StrValue(str) == [t |-> "str", n |-> 0, s |-> str]

\* JavaScript truthiness of such a value.
Truthy(val) ==
    CASE val.t = "none" -> FALSE
      [] val.t = "num" -> val.n # 0
      [] OTHER -> val.s # <<>>

\* Number(val)
ToNumber(val) ==
    CASE val.t = "none" -> NaN
      [] val.t = "num" -> Num(val.n)
      [] OTHER -> StrToNumber(val.s)

\* Number(copies || 1)
CopiesNumber(copies) == IF Truthy(copies) THEN ToNumber(copies) ELSE Num(1)

BaseCostColor == 10
BaseCostOther == 5

\* Math.round(x) of x = twice / 2: the nearest integer, a tie going up.
RoundHalf(twice) == (twice + 1) \div 2

\* A variant of line 756 that charges the used bands in every colour mode.
TotalCostSurchargeAlways(color, totalPages, totalUsedSections, copies) ==
    LET baseCost == IF color = "color" THEN BaseCostColor ELSE BaseCostOther
        c == CopiesNumber(copies)
    IN  IF c.nan THEN NaN
        ELSE Num(RoundHalf((2 * baseCost * totalPages + totalUsedSections) * c.v))

\* Lines 751-759.  The section charge is 0.5 per used band, so the sum is
\* computed in halves of a currency unit.
TotalCost(color, totalPages, totalUsedSections, copies) ==
    LET baseCost == IF color = "color" THEN BaseCostColor ELSE BaseCostOther
        sectionChargeTwice == IF color = "color" THEN totalUsedSections ELSE 0
        c == CopiesNumber(copies)
    IN  IF c.nan THEN NaN
        ELSE Num(RoundHalf((2 * baseCost * totalPages + sectionChargeTwice) * c.v))

\* String(pages || '').split(',').map(s => Number(s.trim())).filter(n => !isNaN(n))
SelectedPages(pages) ==
    LET parts == SplitComma(pages)
        nums == [i \in 1..Len(parts) |-> StrToNumber(Trim(parts[i]))]
        IsNumber(n) == ~n.nan
    IN  SelectSeq(nums, IsNumber)

\* Number(f.replace(baseName + '_', '').replace('.png', ''))
PageNumberOf(f, baseName) ==
    StrToNumber(ReplaceFirst(ReplaceFirst(f, baseName \o <<"_">>, <<>>), PNG, <<>>))

\* selectedPages.includes(pg): SameValueZero, under which NaN equals NaN.
Includes(selectedPages, pg) == \E i \in 1..Len(selectedPages) : selectedPages[i] = pg

\* A variant of lines 724-732 that keeps every file with the prefix.
IsMatchedPrefixOnly(f, baseName, selectedPages) ==
    StartsWith(f, baseName \o <<"_">>)

\* The two filters of lines 724-732.
IsMatched(f, baseName, selectedPages) ==
    /\ StartsWith(f, baseName \o <<"_">>)
    /\ Includes(selectedPages, PageNumberOf(f, baseName))

\* The comparator of lines 733-737: na - nb.
ComparePages(a, b, baseName) == PageNumberOf(a, baseName).v - PageNumberOf(b, baseName).v

\* Array.prototype.sort with that comparator: a stable sort.
RECURSIVE InsertSorted(_, _, _)
InsertSorted(sorted, f, baseName) ==
    IF sorted = <<>> THEN <<f>>
    ELSE IF ComparePages(sorted[Len(sorted)], f, baseName) <= 0
         THEN Append(sorted, f)
         ELSE Append(InsertSorted(SubSeq(sorted, 1, Len(sorted) - 1), f, baseName),
                     sorted[Len(sorted)])

\* A variant of lines 733-738 that leaves the files in the order of the listing.
SortByPageNone(files, baseName) == files

RECURSIVE SortByPage(_, _)
SortByPage(files, baseName) ==
    IF files = <<>> THEN <<>>
    ELSE InsertSorted(SortByPage(SubSeq(files, 1, Len(files) - 1), baseName),
                      files[Len(files)], baseName)

\* Lines 723-738 on a directory listing (a sequence of file names).
MatchedFiles(files, baseName, selectedPages) ==
    LET Keep(f) == IsMatched(f, baseName, selectedPages)
    IN  SortByPage(SelectSeq(files, Keep), baseName)

\* Every order in which readdir may list a set of names.
Listings(names) ==
    {l \in [1..Cardinality(names) -> names] : \A f \in names : \E i \in DOMAIN l : l[i] = f}

(***************************************************************************)
(* State.                                                                  *)
(***************************************************************************)
VARIABLES
    cache,       \* cache[paper]: the directory entries of cache/<paper>
    uploadsDir,  \* the names of the files of uploads/
    clock,       \* Date.now()
    up,          \* up[u]: the /upload handler of request u
    cost,        \* cost[r]: the /calculate-cost handler of request r
    del,         \* del[d]: the /delete-last handler of request d
    sent,        \* the response sent by the last step, if it sent one
    history,     \* a history variable: history.base[b] is what has happened to
                 \* basename b, history.bw the pages a "bw" request has replaced
    fn,          \* the last call of a function checked on its own, and its result
    ledger,      \* the rows of the Transactions table; Transaction_Id is the index
    page         \* the page the browser shows, with the variables of its script

vars == <<cache, uploadsDir, clock, up, cost, del, sent, history, fn, ledger, page>>

\* The variables of the server.
server == <<cache, uploadsDir, clock, up, cost, del, sent, history>>

NoCall == [op |-> "none"]

\* No page of the application is open.
NoPage == [name |-> "none"]

Papers == {"letter", "legal"}

UploadIds == 1..MaxUploads
CostIds == 1..MaxCosts
DeleteIds == 1..MaxDeletes

\* A directory entry: the file's name, the cost requests whose sharp still
\* writes the file's inode, whether the content is a complete image (that of
\* a file being written is not), and the image.
FileEntry(name, writers, ok, img) ==
    [name |-> name, writers |-> writers, ok |-> ok, img |-> img]

NamesOf(dir) == {e.name : e \in dir}

HasFile(dir, name) == \E e \in dir : e.name = name

EntryOf(dir, name) == CHOOSE e \in dir : e.name = name

\* A file sharp or the scanner can decode.
Readable(dir, name) == HasFile(dir, name) /\ EntryOf(dir, name).ok

Unlinked(dir, names) == {e \in dir : e.name \notin names}

\* Request r opens `name` for writing (O_CREAT | O_TRUNC): an existing file
\* keeps its inode, with the writers it has, and loses its content.
Truncated(dir, name, r) ==
    Unlinked(dir, {name})
        \cup {FileEntry(name,
                        (IF HasFile(dir, name) THEN EntryOf(dir, name).writers ELSE {})
                            \cup {r},
                        FALSE, <<>>)}

\* Request r has written the inode it opened, if a name is left for it; the
\* content is complete once no other writer of the inode is left.
Completed(dir, r, img) ==
    {IF r \in e.writers
     THEN FileEntry(e.name, e.writers \ {r}, e.writers = {r},
                    IF e.writers = {r} THEN img ELSE <<>>)
     ELSE e : e \in dir}

\* `name` written in one piece by Ghostscript.
Written(dir, name, img) ==
    Unlinked(dir, {name})
        \cup {FileEntry(name,
                        IF HasFile(dir, name) THEN EntryOf(dir, name).writers ELSE {},
                        TRUE, img)}

\* rename(from, to) within one directory; the caller checks that `from` exists.
Renamed(dir, from, to) ==
    LET e == EntryOf(dir, from)
    IN  Unlinked(dir, {from, to}) \cup {FileEntry(to, e.writers, e.ok, e.img)}

NoResponse == [kind |-> "none"]

\* The requests with a state in `pcs`.
CountIn(pcs) ==
    Cardinality({u \in UploadIds : up[u].pc \in pcs})
    + Cardinality({r \in CostIds : cost[r].pc \in pcs})
    + Cardinality({d \in DeleteIds : del[d].pc \in pcs})

Requests == MaxUploads + MaxCosts + MaxDeletes

\* A request may arrive: the model's bounds on the requests in all and on
\* those handled at the same time.
MayArrive ==
    /\ Requests - CountIn({"idle"}) < MaxRequests
    /\ Requests - CountIn({"idle", "done"}) < MaxInFlight

\* The uploads being handled.
UploadsInFlight == Cardinality({u \in UploadIds : up[u].pc \notin {"idle", "done"}})

(***************************************************************************)
(* POST /upload (lines 643-710).                                           *)
(***************************************************************************)
OriginalNames ==
    { <<"a", ".", "p", "d", "f">>,
      <<"a", ".", "b", ".", "p", "d", "f">> }

\* The basenames an upload can have.
BaseNames == {UploadBaseName(SafeFilename(t, o)) : t \in 1..MaxClock, o \in OriginalNames}

UploadIdle ==
    [pc |-> "idle", filename |-> <<>>, baseName |-> <<>>, pages |-> 0,
     listed |-> [p \in Papers |-> {}], written |-> 0, letterPngPaths |-> <<>>]

UploadDone == [UploadIdle EXCEPT !.pc = "done"]

UploadResponse(success, message, baseName, letter, legal, totalPages) ==
    [kind |-> "upload", success |-> success, message |-> message,
     baseName |-> baseName, letter |-> letter, legal |-> legal, totalPages |-> totalPages]

\* A catch block after which the handler goes on to rasterize.
UploadCatchGoesOn(u, message) ==
    /\ up' = [up EXCEPT ![u].pc = "gsletter"]
    /\ sent' = UploadResponse(FALSE, message, <<>>, <<>>, <<>>, 0)

\* The catch block of lines 702-709: the stored source file is unlinked and
\* the failure is sent.
UploadCatch(u, message) ==
    /\ up' = [up EXCEPT ![u] = UploadDone]
    /\ sent' = UploadResponse(FALSE, message, <<>>, <<>>, <<>>, 0)

\* A rejection that would come after the file is stored.
UploadRejectedStored(u, message) ==
    /\ UploadCatch(u, message)
    /\ uploadsDir' = uploadsDir \cup {SafeFilename(clock, <<"a", ".", "p", "d", "f">>)}
    /\ UNCHANGED <<clock, history>>

\* The request is rejected before anything is stored: the fileFilter refuses
\* the file (lines 462-465, 647, 702-708 with uploadedPath undefined), or
\* there is no file (line 650).
UploadRejected(u, message) ==
    /\ UploadCatch(u, message)
    /\ UNCHANGED <<uploadsDir, clock, history>>

\* multer stores the file (lines 452-466, 646-654), or rejects the request.
\* `pages` is the number of pages of the file; 0 is a file pdf-lib cannot load.
UploadAccept(u) ==
    /\ up[u].pc = "idle"
    /\ \A v \in UploadIds : v < u => up[v].pc # "idle"
    /\ MayArrive
    /\ \E hasFile \in BOOLEAN :
        IF ~hasFile
        THEN UploadRejected(u, "No file uploaded")
        ELSE \E isPdf \in BOOLEAN :
          IF ~isPdf
          THEN UploadRejected(u, "Only PDF files are allowed")
          ELSE \E originalname \in OriginalNames, pages \in 0..MaxPages,
                  now \in clock..MaxClock :
                 LET filename == SafeFilename(now, originalname)
                 IN  /\ clock' = now
                     /\ uploadsDir' = uploadsDir \cup {filename}
                     /\ up' = [up EXCEPT ![u] =
                                 [UploadIdle EXCEPT !.pc = "clear", !.filename = filename,
                                                    !.baseName = UploadBaseName(filename),
                                                    !.pages = pages]]
                     /\ sent' = NoResponse
                     /\ history' = [history EXCEPT !.base[UploadBaseName(filename)] = "new"]
    /\ UNCHANGED <<cache, cost, del>>
    /\ UNCHANGED <<fn, ledger, page>>

\* An upload arrives while no other upload is handled.
UploadReceive(u) ==
    /\ UploadsInFlight < MaxUploadsInFlight
    /\ UploadAccept(u)

\* An upload arrives, also while another upload is handled.
UploadReceiveTogether(u) ==
    /\ UploadsInFlight < MaxUploads
    /\ UploadAccept(u)

\* clearCache (lines 473-482) of both partitions (line 659): the directories
\* are listed ...
ClearReaddir(u) ==
    /\ up[u].pc = "clear"
    /\ up' = [up EXCEPT ![u].pc = "unlink",
                        ![u].listed = [p \in Papers |->
                            {f \in NamesOf(cache[p]) : EndsWith(f, PNG)}]]
    /\ sent' = NoResponse
    /\ UNCHANGED <<cache, uploadsDir, clock, cost, del, history>>
    /\ UNCHANGED <<fn, ledger, page>>

\* ... and the listed .png files are unlinked.  Then the source is loaded
\* (lines 661-667), which throws for a file that is no PDF or has no page.
ClearUnlink(u) ==
    /\ up[u].pc = "unlink"
    /\ cache' = [p \in Papers |-> Unlinked(cache[p], up[u].listed[p])]
    /\ history' = [history EXCEPT !.bw = {m \in @ : m[2] \notin up[u].listed[m[1]]}]
    /\ IF up[u].pages = 0
       THEN /\ UploadCatch(u, "Failed to parse PDF document")
            /\ uploadsDir' = uploadsDir \ {up[u].filename}
       ELSE /\ up' = [up EXCEPT ![u].pc = "resize", ![u].listed = [p \in Papers |-> {}]]
            /\ sent' = NoResponse
            /\ UNCHANGED uploadsDir
    /\ UNCHANGED <<clock, cost, del>>
    /\ UNCHANGED <<fn, ledger, page>>

\* Both resizePDF calls (lines 538-579, 678-681) end: each wrote its
\* normalized PDF, which has as many pages as the source, or threw for a page
\* it could not embed.  Promise.all rejects when one threw.
ResizeEnd(u) ==
    /\ up[u].pc = "resize"
    /\ \E ok \in [Papers -> BOOLEAN] :
        /\ IF \A p \in Papers : ok[p]
           THEN /\ up' = [up EXCEPT ![u].pc = "gsletter"]
                /\ sent' = NoResponse
                /\ uploadsDir' = uploadsDir
                      \cup {ResizedPdfName(up[u].baseName, p) : p \in Papers}
           ELSE /\ UploadCatch(u, "Failed to embed page")
                /\ uploadsDir' = (uploadsDir \ {up[u].filename})
                      \cup {ResizedPdfName(up[u].baseName, p) : p \in {q \in Papers : ok[q]}}
    /\ UNCHANGED <<cache, clock, cost, del, history>>
    /\ UNCHANGED <<fn, ledger, page>>

GsPaper(rec) == IF rec.pc = "gsletter" THEN "letter" ELSE "legal"

\* Ghostscript (line 512) writes the next page of the normalized PDF.
GsWritePage(u) ==
    /\ up[u].pc \in {"gsletter", "gslegal"}
    /\ up[u].written < up[u].pages
    /\ ResizedPdfName(up[u].baseName, GsPaper(up[u])) \in uploadsDir
    /\ LET n == up[u].written + 1
       IN  /\ cache' = [cache EXCEPT ![GsPaper(up[u])] =
                          Written(@, PageFileName(up[u].baseName, n), RenderedPage(n))]
           /\ up' = [up EXCEPT ![u].written = n]
           /\ history' = [history EXCEPT !.bw =
                             @ \ {<<GsPaper(up[u]), PageFileName(up[u].baseName, n)>>}]
    /\ sent' = NoResponse
    /\ UNCHANGED <<uploadsDir, clock, cost, del>>
    /\ UNCHANGED <<fn, ledger, page>>

\* A failure of Ghostscript after which the pages written so far are removed.
GsFailRollback(u) ==
    /\ up[u].pc \in {"gsletter", "gslegal"}
    /\ UploadCatch(u, "Ghostscript conversion failed")
    /\ uploadsDir' = uploadsDir \ {up[u].filename}
    /\ cache' = [p \in Papers |->
                    Unlinked(cache[p], {PageFileName(up[u].baseName, n) : n \in 1..MaxPages})]
    /\ UNCHANGED <<clock, cost, del, history>>
    /\ UNCHANGED <<fn, ledger, page>>

\* Ghostscript fails: exec rejects, or stderr holds more than a warning
\* (lines 512-516, 530-534).
GsFail(u) ==
    /\ up[u].pc \in {"gsletter", "gslegal"}
    /\ UploadCatch(u, "Ghostscript conversion failed")
    /\ uploadsDir' = uploadsDir \ {up[u].filename}
    /\ UNCHANGED <<cache, clock, cost, del, history>>
    /\ UNCHANGED <<fn, ledger, page>>

\* An adapter that returns the names of all pages without a listing.
GsFoundUnlisted(dir, baseName) == {PageFileName(baseName, n) : n \in 1..MaxPages}

\* The files convertPdfToPngsWithGhostscript finds (lines 519-522).
GsFound(dir, baseName) ==
    {f \in NamesOf(dir) : StartsWith(f, baseName \o <<"_">>) /\ EndsWith(f, PNG)}

\* Ghostscript has ended without an error, having written every page or
\* nothing at all: the directory is listed (lines 519-528).  After the legal
\* run the source is unlinked and the response sent (lines 687-700).
GsList(u) ==
    /\ up[u].pc \in {"gsletter", "gslegal"}
    /\ up[u].written \in {0, up[u].pages}
    /\ LET found == GsFound(cache[GsPaper(up[u])], up[u].baseName)
       IN  IF found = {}
           THEN /\ UploadCatch(u, "Ghostscript conversion failed")
                /\ uploadsDir' = uploadsDir \ {up[u].filename}
                /\ UNCHANGED history
           ELSE \E pngPaths \in Listings(found) :
                  IF up[u].pc = "gsletter"
                  THEN /\ up' = [up EXCEPT ![u].pc = "gslegal", ![u].written = 0,
                                           ![u].letterPngPaths = pngPaths]
                       /\ sent' = NoResponse
                       /\ UNCHANGED <<uploadsDir, history>>
                  ELSE /\ uploadsDir' = uploadsDir \ {up[u].filename}
                       /\ history' = [history EXCEPT !.base[up[u].baseName] = "returned"]
                       /\ up' = [up EXCEPT ![u] = UploadDone]
                       /\ sent' = UploadResponse(TRUE, "", up[u].baseName,
                                                 up[u].letterPngPaths, pngPaths,
                                                 up[u].pages)
    /\ UNCHANGED <<cache, clock, cost, del>>
    /\ UNCHANGED <<fn, ledger, page>>

(***************************************************************************)
(* POST /calculate-cost (lines 713-767).                                   *)
(***************************************************************************)
CostIdle ==
    [pc |-> "idle", paper |-> "", baseName |-> <<>>, color |-> "", pages |-> <<>>,
     matched |-> <<>>, totalPages |-> 0,
     totalUsedSections |-> 0, wimg |-> <<>>]

CostDone == [CostIdle EXCEPT !.pc = "done"]

CostResponse(success, message, totalCost, usedSections, totalPages, color, copies) ==
    [kind |-> "cost", success |-> success, message |-> message, totalCost |-> totalCost,
     usedSections |-> usedSections, totalPages |-> totalPages, color |-> color,
     copies |-> copies]

CostFailure(message) == CostResponse(FALSE, message, NaN, 0, 0, "", NoValue)

\* The values a request may carry.  copies, which only line 759 reads, is
\* drawn there.
RequestPapers == {"letter", "legal", "a4", ""}

RequestColors == {"color", "bw", "grey"}

RequestPages == { <<"1">>, <<"2", ",", " ", "1">>, <<"3">>, <<>>, <<"x">> }

RequestCopies ==
    {NoValue, NumValue(0), NumValue(1), NumValue(2), StrValue(<<"3">>), StrValue(<<"x">>)}

RequestBaseNames == BaseNames \cup {SanitizeBaseName(b) : b \in BaseNames} \cup {<<>>}

\* A loop that scans without the transform.
CostStepPcScanOnly(color) == "scan"

\* A variant of line 485 that transforms in every colour mode.
CostStepPcAlways(color) == "convert"

\* The step of the loop of lines 744-749 that follows: the transform, which
\* does nothing unless the mode is "bw", then the scan.
CostStepPc(color) == IF color = "bw" THEN "convert" ELSE "scan"

\* The files of the partition that lines 724-732 keep.  The filters keep the
\* order of the listing, so the orders in which readdir may list the partition
\* give the kept files in each of their orders.
LookupHits(dir, baseName, selectedPages) ==
    {f \in NamesOf(dir) : IsMatched(f, baseName, selectedPages)}

\* Lines 715-740: the parameters are checked, the partition is listed and the
\* selected pages are matched.
CostLookup(r) ==
    /\ cost[r].pc = "idle"
    /\ \A q \in CostIds : q < r => cost[q].pc # "idle"
    /\ MayArrive
    /\ \E paper \in RequestPapers, baseName \in RequestBaseNames :
        IF paper = "" \/ baseName = <<>>
        THEN /\ cost' = [cost EXCEPT ![r] = CostDone]
             /\ sent' = CostFailure("Missing params")
        ELSE \E pages \in RequestPages :
          LET selectedPages == SelectedPages(pages)
          IN  IF Len(selectedPages) = 0
              THEN /\ cost' = [cost EXCEPT ![r] = CostDone]
                   /\ sent' = CostFailure("No pages selected")
              ELSE IF paper \notin Papers
              THEN /\ cost' = [cost EXCEPT ![r] = CostDone]
                   /\ sent' = CostFailure("ENOENT: no such file or directory")
              ELSE \E files \in Listings(LookupHits(cache[paper], baseName, selectedPages)) :
                     LET matched == MatchedFiles(files, baseName, selectedPages)
                     IN  IF Len(matched) = 0
                         THEN /\ cost' = [cost EXCEPT ![r] = CostDone]
                              /\ sent' = CostFailure("No cached images found.")
                         ELSE \E color \in RequestColors :
                                /\ cost' = [cost EXCEPT ![r] =
                                              [CostIdle EXCEPT !.pc = CostStepPc(color),
                                                               !.paper = paper,
                                                               !.baseName = baseName,
                                                               !.color = color,
                                                               !.pages = pages,
                                                               !.matched = matched,
                                                               !.totalPages = Len(matched)]]
                                /\ sent' = NoResponse
    /\ UNCHANGED <<cache, uploadsDir, clock, up, del, history>>
    /\ UNCHANGED <<fn, ledger, page>>

TmpName(f) == f \o BWPNG

\* convertToBWIfNeeded, lines 488-490: sharp reads the page and opens the
\* temporary file; an unreadable page throws, which line 495 catches.
CostConvert(r) ==
    /\ cost[r].pc = "convert"
    /\ LET dir == cache[cost[r].paper]
           f == Head(cost[r].matched)
       IN  IF Readable(dir, f)
           THEN /\ cache' = [cache EXCEPT ![cost[r].paper] = Truncated(dir, TmpName(f), r)]
                /\ cost' = [cost EXCEPT ![r].pc = "writing",
                                        ![r].wimg = Greyscale(EntryOf(dir, f).img)]
           ELSE /\ cost' = [cost EXCEPT ![r].pc = "scan"]
                /\ UNCHANGED cache
    /\ sent' = NoResponse
    /\ UNCHANGED <<uploadsDir, clock, up, del, history>>
    /\ UNCHANGED <<fn, ledger, page>>

\* toFile resolves: sharp has written the file it opened.
CostWriteEnd(r) ==
    /\ cost[r].pc = "writing"
    /\ cache' = [cache EXCEPT ![cost[r].paper] = Completed(@, r, cost[r].wimg)]
    /\ cost' = [cost EXCEPT ![r].pc = "rename", ![r].wimg = <<>>]
    /\ sent' = NoResponse
    /\ UNCHANGED <<uploadsDir, clock, up, del, history>>
    /\ UNCHANGED <<fn, ledger, page>>

\* Line 493: the temporary file is renamed over the page; without a temporary
\* file rename throws, which line 495 catches.
CostRename(r) ==
    /\ cost[r].pc = "rename"
    /\ LET dir == cache[cost[r].paper]
           f == Head(cost[r].matched)
       IN  IF HasFile(dir, TmpName(f))
           THEN /\ cache' = [cache EXCEPT ![cost[r].paper] = Renamed(dir, TmpName(f), f)]
                /\ history' = [history EXCEPT !.bw = @ \cup {<<cost[r].paper, f>>}]
           ELSE UNCHANGED <<cache, history>>
    /\ cost' = [cost EXCEPT ![r].pc = "scan"]
    /\ sent' = NoResponse
    /\ UNCHANGED <<uploadsDir, clock, up, del>>
    /\ UNCHANGED <<fn, ledger, page>>

\* Lines 747-761: the page is scanned; after the last page the cost is
\* computed and sent.  A page that cannot be read throws (line 763).
CostScan(r) ==
    /\ cost[r].pc = "scan"
    /\ LET dir == cache[cost[r].paper]
           f == Head(cost[r].matched)
       IN  IF ~Readable(dir, f)
           THEN /\ cost' = [cost EXCEPT ![r] = CostDone]
                /\ sent' = CostFailure("Input file is missing or unreadable")
           ELSE LET used == cost[r].totalUsedSections + ScanUsedSections(EntryOf(dir, f).img)
                IN  IF Len(cost[r].matched) > 1
                    THEN /\ cost' = [cost EXCEPT ![r].matched = Tail(@),
                                                 ![r].totalUsedSections = used,
                                                 ![r].pc = CostStepPc(cost[r].color)]
                         /\ sent' = NoResponse
                    ELSE \E copies \in RequestCopies :
                           /\ cost' = [cost EXCEPT ![r] = CostDone]
                           /\ sent' = CostResponse(TRUE, "",
                                         TotalCost(cost[r].color, cost[r].totalPages,
                                                   used, copies),
                                         used, cost[r].totalPages, cost[r].color, copies)
    /\ UNCHANGED <<cache, uploadsDir, clock, up, del, history>>
    /\ UNCHANGED <<fn, ledger, page>>

(***************************************************************************)
(* DELETE /delete-last/:baseName (lines 620-640).                          *)
(***************************************************************************)
\* `after` is a history field: the request arrived for a basename that an
\* upload had returned.
DeleteIdle ==
    [pc |-> "idle", raw |-> <<>>, folder |-> "letter", names |-> {}, after |-> FALSE]

DeleteDone == [DeleteIdle EXCEPT !.pc = "done"]

\* `raw` is the route parameter the response answers.
DeleteResponse(raw, success, message) ==
    [kind |-> "delete", success |-> success, message |-> message, raw |-> raw]

\* The values of the route parameter.
RequestParams == (RequestBaseNames \ {<<>>}) \cup {<<".">>}

\* Lines 621-622.
DeleteStart(d) ==
    /\ del[d].pc = "idle"
    /\ \A e \in DeleteIds : e < d => del[e].pc # "idle"
    /\ MayArrive
    /\ \E raw \in RequestParams :
        IF SanitizeBaseName(raw) = <<>>
        THEN /\ del' = [del EXCEPT ![d] = DeleteDone]
             /\ sent' = DeleteResponse(raw, FALSE, "Invalid basename")
        ELSE /\ del' = [del EXCEPT ![d] =
                           [DeleteIdle EXCEPT !.pc = "readdir", !.raw = raw,
                                              !.after = /\ raw \in BaseNames
                                                        /\ history.base[raw] = "returned"]]
             /\ sent' = NoResponse
    /\ UNCHANGED <<cache, uploadsDir, clock, up, cost, history>>
    /\ UNCHANGED <<fn, ledger, page>>

\* The files line 629 selects.
DeleteSelected(dir, baseName) ==
    {f \in NamesOf(dir) : \/ StartsWith(f, baseName \o <<"_">>)
                          \/ StartsWith(f, baseName \o <<"-">>)}

\* Lines 627-629: the folder is listed ...
DeleteReaddir(d) ==
    /\ del[d].pc = "readdir"
    /\ del' = [del EXCEPT ![d].pc = "unlink",
                          ![d].names = DeleteSelected(cache[del[d].folder],
                                                      SanitizeBaseName(del[d].raw))]
    /\ sent' = NoResponse
    /\ UNCHANGED <<cache, uploadsDir, clock, up, cost, history>>
    /\ UNCHANGED <<fn, ledger, page>>

\* ... and the files with the prefix are unlinked; the legal folder follows
\* the letter folder, and the resized PDFs follow both.
DeleteUnlink(d) ==
    /\ del[d].pc = "unlink"
    /\ cache' = [cache EXCEPT ![del[d].folder] = Unlinked(@, del[d].names)]
    /\ history' = [history EXCEPT !.bw =
                      {m \in @ : ~(m[1] = del[d].folder /\ m[2] \in del[d].names)}]
    /\ del' = [del EXCEPT ![d].names = {},
                          ![d].pc = IF del[d].folder = "letter" THEN "readdir" ELSE "pdfs",
                          ![d].folder = "legal"]
    /\ sent' = NoResponse
    /\ UNCHANGED <<uploadsDir, clock, up, cost>>
    /\ UNCHANGED <<fn, ledger, page>>

\* Lines 632-635.
DeletePdfs(d) ==
    /\ del[d].pc = "pdfs"
    /\ uploadsDir' = uploadsDir
          \ {ResizedPdfName(SanitizeBaseName(del[d].raw), p) : p \in Papers}
    /\ del' = [del EXCEPT ![d] = DeleteDone]
    /\ sent' = DeleteResponse(del[d].raw, TRUE, "")
    /\ history' = IF del[d].after /\ history.base[del[d].raw] = "returned"
                  THEN [history EXCEPT !.base[del[d].raw] = "cleaned"]
                  ELSE history
    /\ UNCHANGED <<cache, clock, up, cost>>
    /\ UNCHANGED <<fn, ledger, page>>

(***************************************************************************)
(* The static routes (lines 469-470).  express.static answers a GET from   *)
(* the directory as it is and changes nothing: the files a GET can fetch   *)
(* are a function of the state.                                            *)
(***************************************************************************)
StaticFile(mount, folder, name) == [mount |-> mount, folder |-> folder, name |-> name]

\* The files that /uploads/{name} and /cache/{folder}/{name} answer with.
StaticFiles ==
    {StaticFile("/uploads", "", name) : name \in uploadsDir}
        \cup UNION {{StaticFile("/cache", p, name) : name \in NamesOf(cache[p])}
                       : p \in Papers}

(***************************************************************************)
(* The server.                                                             *)
(***************************************************************************)
Init ==
    /\ cache = [p \in Papers |-> {}]
    /\ uploadsDir = {}
    /\ clock = 1
    /\ up = [u \in UploadIds |-> UploadIdle]
    /\ cost = [r \in CostIds |-> CostIdle]
    /\ del = [d \in DeleteIds |-> DeleteIdle]
    /\ sent = NoResponse
    /\ history = [base |-> [b \in BaseNames |-> "new"], bw |-> {}]
    /\ fn = NoCall
    /\ ledger = <<>>
    /\ page = NoPage

Next ==
    \/ \E u \in UploadIds : UploadReceive(u)
    \/ \E u \in UploadIds : ClearReaddir(u)
    \/ \E u \in UploadIds : ClearUnlink(u)
    \/ \E u \in UploadIds : ResizeEnd(u)
    \/ \E u \in UploadIds : GsWritePage(u)
    \/ \E u \in UploadIds : GsFail(u)
    \/ \E u \in UploadIds : GsList(u)
    \/ \E r \in CostIds : CostLookup(r)
    \/ \E r \in CostIds : CostConvert(r)
    \/ \E r \in CostIds : CostWriteEnd(r)
    \/ \E r \in CostIds : CostRename(r)
    \/ \E r \in CostIds : CostScan(r)
    \/ \E d \in DeleteIds : DeleteStart(d)
    \/ \E d \in DeleteIds : DeleteReaddir(d)
    \/ \E d \in DeleteIds : DeleteUnlink(d)
    \/ \E d \in DeleteIds : DeletePdfs(d)

Spec == Init /\ [][Next]_vars

(***************************************************************************)
(* Uploads handled at the same time: the steps of the upload handler       *)
(* only, with no bound on the uploads in flight but MaxInFlight.           *)
(***************************************************************************)
NextTogether ==
    \/ \E u \in UploadIds : UploadReceiveTogether(u)
    \/ \E u \in UploadIds : ClearReaddir(u)
    \/ \E u \in UploadIds : ClearUnlink(u)
    \/ \E u \in UploadIds : ResizeEnd(u)
    \/ \E u \in UploadIds : GsWritePage(u)
    \/ \E u \in UploadIds : GsFail(u)
    \/ \E u \in UploadIds : GsList(u)

SpecTogether == Init /\ [][NextTogether]_vars

(***************************************************************************)
(* The ledger: /transaction/create (lines 770-806) and /transaction/update *)
(* (lines 809-832) on the Transactions table (lines 857-870).  The two     *)
(* handlers have no await and share nothing with the handlers of the       *)
(* files, so they are checked in a specification of their own.             *)
(***************************************************************************)
AllowedStatuses == {"pending", "printing", "completed", "cancelled"}

AllowedColors == {"bw", "color"}

AllowedSizes == {"letter", "legal"}

PathLimit == 200

\* !dateString || isNaN(new Date(dateString)), line 774.  The dates of the
\* model are years of four digits, the shortest text Date parses.
DateParses(val) == val.t = "str" /\ Len(val.s) = 4 /\ AllDigits(val.s)

\* Pages.match(/^[0-9,\-\s]+$/), line 782.
IsPagesText(str) ==
    /\ str # <<>>
    /\ \A i \in DOMAIN str : IsDigit(str[i]) \/ IsSpace(str[i]) \/ str[i] \in {",", "-"}

\* An amount kept as it is sent, even below 0.
CreateAmountAny(Amount) == IF ToNumber(Amount).nan THEN 0 ELSE ToNumber(Amount).v

\* Lines 775-776: Number(Amount), and 0 for NaN or a number below 0.
CreateAmount(Amount) ==
    LET n == ToNumber(Amount)
    IN  IF n.nan \/ n.v < 0 THEN 0 ELSE n.v

\* A status stored as it is sent.
SafeStatusAny(Status) == Status

\* Lines 788 and 813.
SafeStatus(Status) == IF Status \in AllowedStatuses THEN Status ELSE "pending"

\* Line 814.
SafeAmount(Amount) == IF ToNumber(Amount).nan THEN 0 ELSE ToNumber(Amount).v

CreateResponse(success, message, id) ==
    [kind |-> "create", success |-> success, message |-> message, id |-> id]

UpdateResponse(success, message) ==
    [kind |-> "update", success |-> success, message |-> message]

\* A path of one character more than line 785 allows.
LongPath == [i \in 1..(PathLimit + 1) |-> "a"]

\* The values the fields of a draft may have.
DraftDates == {NoValue, StrValue(<<"2", "0", "2", "6">>), StrValue(<<"x">>)}

DraftAmounts == {NoValue, NumValue(5), NumValue(-1), StrValue(<<"x">>)}

DraftCopies == {NoValue, NumValue(0), StrValue(<<"1">>), StrValue(<<"x">>)}

DraftColors == {"bw", "color", "red"}

DraftPages == {NoValue, NumValue(1), StrValue(<<"1", "-", "2", ",", " ", "3">>),
               StrValue(<<"x">>), StrValue(<<>>)}

DraftSizes == {"letter", "legal", "a4"}

DraftPaths == {NoValue, StrValue(<<"1", "-", "a">>), StrValue(LongPath)}

DraftStatuses == AllowedStatuses \cup {"paid"}

\* A validation that refuses the draft: the message is sent, no row is
\* inserted.
CreateRefused(message) ==
    /\ sent' = CreateResponse(FALSE, message, 0)
    /\ UNCHANGED ledger

\* The row that line 796 inserts.
CreatedRow(Date, Amount, Color, Pages, Copies, Paper_Size, File_Path, Status) ==
    [Date |-> Date.s, Amount |-> CreateAmount(Amount), Color |-> Color,
     Pages |-> Pages.s, Copies |-> ToNumber(Copies).v, Paper_Size |-> Paper_Size,
     File_Path |-> File_Path.s, File_Size |-> <<"0">>, Status |-> SafeStatus(Status)]

\* /transaction/create.  The fields are checked in the order of lines
\* 774-785.  `fails` is the statement throwing (a busy or full database),
\* which rolls the transaction back and is caught at line 802.
TransactionCreate ==
    /\ \E Date \in DraftDates :
        IF ~Truthy(Date) \/ ~DateParses(Date) THEN CreateRefused("Invalid date.")
        ELSE \E Copies \in DraftCopies :
        IF ToNumber(Copies).nan \/ ToNumber(Copies).v < 1
        THEN CreateRefused("Invalid number of copies.")
        ELSE \E Color \in DraftColors :
        IF Color \notin AllowedColors THEN CreateRefused("Invalid color selection.")
        ELSE \E Pages \in DraftPages :
        IF Pages.t # "str" \/ ~IsPagesText(Pages.s)
        THEN CreateRefused("Invalid page selection.")
        ELSE \E Paper_Size \in DraftSizes :
        IF Paper_Size \notin AllowedSizes THEN CreateRefused("Invalid paper size.")
        ELSE \E File_Path \in DraftPaths :
        IF File_Path.t # "str" \/ Len(File_Path.s) > PathLimit
        THEN CreateRefused("Invalid file path.")
        ELSE \E Amount \in DraftAmounts, Status \in DraftStatuses, fails \in BOOLEAN :
               IF fails
               THEN CreateRefused("database error")
               ELSE /\ Len(ledger) < MaxRows
                    /\ ledger' = Append(ledger,
                                        CreatedRow(Date, Amount, Color, Pages, Copies,
                                                   Paper_Size, File_Path, Status))
                    /\ sent' = CreateResponse(TRUE, "", Len(ledger) + 1)
    /\ UNCHANGED <<cache, uploadsDir, clock, up, cost, del, history, fn, page>>

\* The ids and amounts an update may carry.
UpdateIds == 1..(MaxRows + 1)

UpdateAmounts == {NoValue, NumValue(7), NumValue(-1), StrValue(<<"x">>)}

\* The table after the UPDATE statement of lines 817-822: the row of that
\* id, if there is one, has the new amount and status.
Updated(rows, id, Amount, Status) ==
    [i \in DOMAIN rows |->
        IF i = id THEN [rows[i] EXCEPT !.Amount = SafeAmount(Amount),
                                       !.Status = SafeStatus(Status)]
        ELSE rows[i]]

\* /transaction/update.
TransactionUpdate ==
    /\ \E id \in UpdateIds, Amount \in UpdateAmounts, Status \in DraftStatuses :
          \E fails \in BOOLEAN :
            IF fails
            THEN /\ sent' = UpdateResponse(FALSE, "database error")
                 /\ UNCHANGED ledger
            ELSE /\ ledger' = Updated(ledger, id, Amount, Status)
                 /\ sent' = UpdateResponse(TRUE, "")
    /\ UNCHANGED <<cache, uploadsDir, clock, up, cost, del, history, fn, page>>

NextLedger == TransactionCreate \/ TransactionUpdate

SpecLedger == Init /\ [][NextLedger]_vars

(***************************************************************************)
(* One /transaction/update on its own: the table holds rows that           *)
(* /transaction/create and earlier updates leave, and the request is       *)
(* drawn and kept for the comparison with the table after it.              *)
(***************************************************************************)
\* Rows of the table: a created row in each status, unpaid or paid.
LedgerRows ==
    {CreatedRow(StrValue(<<"2", "0", "2", "6">>), NumValue(amount), "color",
                StrValue(<<"1">>), StrValue(<<"1">>), "letter",
                StrValue(<<"1", "-", "a">>), status)
        : amount \in {0, 5}, status \in AllowedStatuses}

InitUpdate ==
    /\ Init!1 /\ Init!2 /\ Init!3 /\ Init!4 /\ Init!5 /\ Init!6 /\ Init!7 /\ Init!8
    /\ Init!11
    /\ ledger \in UNION {[1..n -> LedgerRows] : n \in 0..MaxRows}
    /\ \E id \in UpdateIds, Amount \in UpdateAmounts, Status \in DraftStatuses :
          fn = [op |-> "args", id |-> id, Amount |-> Amount, Status |-> Status,
                before |-> ledger]

UpdateApply ==
    /\ fn.op = "args"
    /\ \E fails \in BOOLEAN :
          IF fails
          THEN /\ sent' = UpdateResponse(FALSE, "database error")
               /\ UNCHANGED ledger
          ELSE /\ ledger' = Updated(ledger, fn.id, fn.Amount, fn.Status)
               /\ sent' = UpdateResponse(TRUE, "")
    /\ fn' = [fn EXCEPT !.op = "update"]
    /\ UNCHANGED <<cache, uploadsDir, clock, up, cost, del, history, page>>

SpecUpdate == InitUpdate /\ [][UpdateApply]_vars

(***************************************************************************)
(* The cost page (src/public/cost.js) for the transaction the Proceed      *)
(* button has created: the page is opened, the answer of /calculate-cost   *)
(* arrives, the user types a payment and clicks Print or Cancel, and the   *)
(* server handles the update the click sends.                              *)
(***************************************************************************)
\* The cost page as its script starts (lines 1-16): totalCost is 0 and the
\* cost request is sent.  `calc` is the state of that request, `wait` the
\* click handler that awaits an answer, `request` the update it has sent.
CostPage(id) ==
    [name |-> "cost", id |-> id, totalCost |-> 0, calc |-> "pending",
     payment |-> <<>>, wait |-> "", request |-> [Amount |-> 0, Status |-> ""],
     alert |-> ""]

\* The index page the handlers go back to.
IndexPage == [name |-> "index"]

\* The total costs a successful answer carries, and the texts of the
\* payment field.
TotalCosts == {5, 10}

Payments == {<<>>, <<"3">>, <<"5">>, <<"2", "0">>, <<"x">>}

\* The transaction /transaction/create has inserted for the Proceed button
\* (app.js lines 243-253): Amount 0, Status "pending".
ProceedRow ==
    CreatedRow(StrValue(<<"2", "0", "2", "6">>), NumValue(0), "color", StrValue(<<"1">>),
               StrValue(<<"1">>), "letter", StrValue(<<"1", "-", "a">>), "pending")

\* Line 54: payment < totalCost, with payment = Number(value); a comparison
\* with NaN is false.
PaymentTooLow(payment, totalCost) ==
    ~StrToNumber(payment).nan /\ StrToNumber(payment).v < totalCost

\* cost.html is opened, or opened again, for the transaction.
PageOpen ==
    /\ page.name \in {"none", "index"}
    /\ page' = CostPage(1)
    /\ UNCHANGED <<server, fn, ledger>>

\* The answer of /calculate-cost arrives (lines 26-35).
CostAnswer ==
    /\ page.name = "cost" /\ page.calc = "pending"
    /\ \/ \E c \in TotalCosts : page' = [page EXCEPT !.calc = "ok", !.totalCost = c]
       \/ page' = [page EXCEPT !.calc = "failed",
                                !.alert = "Cost calculation failed"]
    /\ UNCHANGED <<server, fn, ledger>>

\* The user types into the payment field.
PaymentInput ==
    /\ page.name = "cost" /\ page.wait = ""
    /\ \E value \in Payments : page' = [page EXCEPT !.payment = value]
    /\ page' # page
    /\ UNCHANGED <<server, fn, ledger>>

\* The click handler of the Print button up to its fetch (lines 51-67).
PrintClick ==
    /\ page.name = "cost" /\ page.wait = ""
    /\ IF PaymentTooLow(page.payment, page.totalCost)
       THEN page' = [page EXCEPT !.alert = "Payment not enough!"]
       ELSE page' = [page EXCEPT !.wait = "print", !.alert = "",
                                 !.request = [Amount |-> page.totalCost,
                                              Status |-> "printing"]]
    /\ UNCHANGED <<server, fn, ledger>>

\* The click handler of the Cancel button up to its fetch (lines 78-88).
CancelClick ==
    /\ page.name = "cost" /\ page.wait = ""
    /\ page' = [page EXCEPT !.wait = "cancel", !.alert = "",
                             !.request = [Amount |-> 0, Status |-> "cancelled"]]
    /\ UNCHANGED <<server, fn, ledger>>

\* The server handles the update a click has sent (lines 809-832) and the
\* handler goes on: after Print to the index page when the update succeeded
\* (lines 69-74), after Cancel to the index page in any case (lines 90-94).
UpdateAnswer ==
    /\ page.name = "cost" /\ page.wait \in {"print", "cancel"}
    /\ \E fails \in BOOLEAN :
          IF fails
          THEN /\ sent' = UpdateResponse(FALSE, "database error")
               /\ UNCHANGED ledger
               /\ page' = IF page.wait = "print" THEN [page EXCEPT !.wait = ""]
                          ELSE IndexPage
          ELSE /\ sent' = UpdateResponse(TRUE, "")
               /\ ledger' = Updated(ledger, page.id, NumValue(page.request.Amount),
                                    page.request.Status)
               /\ page' = IndexPage
    /\ UNCHANGED <<cache, uploadsDir, clock, up, cost, del, history, fn>>

InitCostPage ==
    /\ Init!1 /\ Init!2 /\ Init!3 /\ Init!4 /\ Init!5 /\ Init!6 /\ Init!7 /\ Init!8
    /\ Init!9 /\ Init!11
    /\ ledger = <<ProceedRow>>

NextCostPage ==
    \/ PageOpen
    \/ CostAnswer
    \/ PaymentInput
    \/ PrintClick
    \/ CancelClick
    \/ UpdateAnswer

SpecCostPage == InitCostPage /\ [][NextCostPage]_vars

(***************************************************************************)
(* The lookup of lines 717-738 on its own: the listing of a partition, the *)
(* basename and the pages are drawn, and the lookup is applied.            *)
(***************************************************************************)
LookupOriginalNames == OriginalNames \cup { <<"a", "_", "1", ".", "p", "d", "f">> }

LookupBaseNames == {UploadBaseName(SafeFilename(1, o)) : o \in LookupOriginalNames}

\* The files the server writes into a partition: the pages Ghostscript
\* renders and the temporary files of the grayscale transform.
LookupFileNames ==
    LET pageFiles == {PageFileName(b, n) : b \in LookupBaseNames, n \in 1..MaxPages}
    IN  pageFiles \cup {TmpName(f) : f \in pageFiles}

LookupPages == RequestPages \cup { <<"1", ",", "1">>, <<"1", ",", "2">> }

Lookup(files, baseName, pages) == MatchedFiles(files, baseName, SelectedPages(pages))

InitLookup ==
    /\ Init!1 /\ Init!2 /\ Init!3 /\ Init!4 /\ Init!5 /\ Init!6 /\ Init!7 /\ Init!8
    /\ Init!10 /\ Init!11
    /\ \E names \in SUBSET LookupFileNames :
          /\ Cardinality(names) <= MaxListed
          /\ \E files \in Listings(names), baseName \in LookupBaseNames,
                pages \in LookupPages :
                fn = [op |-> "args", files |-> files, baseName |-> baseName,
                      pages |-> pages]

LookupApply ==
    /\ fn.op = "args"
    /\ fn' = [op |-> "lookup", files |-> fn.files, baseName |-> fn.baseName,
              pages |-> fn.pages,
              matched |-> Lookup(fn.files, fn.baseName, fn.pages)]
    /\ UNCHANGED <<server, ledger, page>>

SpecLookup == InitLookup /\ [][LookupApply]_vars

(***************************************************************************)
(* The upload page (src/public/app.js): its state, the submit handler of   *)
(* lines 200-231 and resetForm of lines 68-92, each split at its await.    *)
(* The answers of the server are inputs.                                   *)
(***************************************************************************)
\* lastUploadedBaseName = null (line 26).
NoBaseName == <<>>

\* The page after DOMContentLoaded (lines 26-50).  `file` says that the file
\* input holds a file, `disabled` is the state of the settings elements,
\* `uploads` and `resets` count the handlers that await their fetch.
\* `handled` is a history field: the baseName of the successful upload
\* answer handled last, as long as the user has neither reset nor submitted
\* since.
AppPage ==
    [name |-> "app", lastUploadedBaseName |-> NoBaseName, totalPages |-> 0,
     disabled |-> TRUE, clearDisabled |-> TRUE, file |-> FALSE,
     uploads |-> 0, resets |-> 0, handled |-> NoBaseName]

\* setSettingsDisabledState(isDisabled), lines 33-45, for the fields kept.
SetSettingsDisabledState(p, isDisabled) ==
    [p EXCEPT !.disabled = isDisabled,
              !.clearDisabled = isDisabled \/ p.lastUploadedBaseName = NoBaseName]

\* The user picks a PDF in the file input.
FileChosen ==
    /\ page.name = "app" /\ ~page.file
    /\ page' = [page EXCEPT !.file = TRUE]
    /\ UNCHANGED <<server, fn, ledger>>

\* Lines 200-210: the form is submitted; without a file the handler alerts
\* and returns, with one it sends the upload.
SubmitClick ==
    /\ page.name = "app" /\ page.file
    /\ page.uploads < MaxSubmits
    /\ page' = [page EXCEPT !.uploads = @ + 1, !.handled = NoBaseName]
    /\ UNCHANGED <<server, fn, ledger>>

\* Lines 211-230: the answer of /upload is handled.
UploadHandled ==
    /\ page.name = "app" /\ page.uploads > 0
    /\ \/ page' = [page EXCEPT !.uploads = @ - 1]
       \/ \E baseName \in BaseNames, count \in 1..MaxPages :
             page' = SetSettingsDisabledState(
                        [page EXCEPT !.uploads = @ - 1,
                                     !.lastUploadedBaseName = baseName,
                                     !.totalPages = count,
                                     !.handled = baseName],
                        FALSE)
    /\ UNCHANGED <<server, fn, ledger>>

\* Lines 69-83: resetForm up to its await; with no basename it ends here.
ResetStart(p) ==
    LET q == SetSettingsDisabledState([p EXCEPT !.file = FALSE, !.totalPages = 0,
                                                !.handled = NoBaseName], TRUE)
    IN  IF p.lastUploadedBaseName # NoBaseName
        THEN [q EXCEPT !.resets = @ + 1]
        ELSE q

\* Lines 85-90: resetForm after the answer of /delete-last, or after the
\* error line 86 catches.
ResetEnd(p) == [p EXCEPT !.resets = @ - 1, !.lastUploadedBaseName = NoBaseName]

\* Lines 94-97: the Clear button, which a disabled button does not fire.
ClearClick ==
    /\ page.name = "app" /\ ~page.clearDisabled
    /\ page.resets < MaxResets
    /\ page' = ResetStart(page)
    /\ UNCHANGED <<server, fn, ledger>>

ResetHandled ==
    /\ page.name = "app" /\ page.resets > 0
    /\ page' = ResetEnd(page)
    /\ UNCHANGED <<server, fn, ledger>>

InitApp ==
    /\ Init!1 /\ Init!2 /\ Init!3 /\ Init!4 /\ Init!5 /\ Init!6 /\ Init!7 /\ Init!8
    /\ Init!9 /\ Init!10
    /\ page = AppPage

NextApp ==
    \/ FileChosen
    \/ SubmitClick
    \/ UploadHandled
    \/ ClearClick
    \/ ResetHandled

SpecApp == InitApp /\ [][NextApp]_vars

(***************************************************************************)
(* /calculate-cost requests beside one another, with no upload and no      *)
(* cleanup under way: the server after one upload of a.pdf has been        *)
(* answered, its pages cached in both partitions.                          *)
(***************************************************************************)
CachedBaseName == UploadBaseName(SafeFilename(1, <<"a", ".", "p", "d", "f">>))

\* The partition after the rasterization of a document of n pages.
CachedPages(n) ==
    {FileEntry(PageFileName(CachedBaseName, i), {}, TRUE, RenderedPage(i)) : i \in 1..n}

InitCosts ==
    /\ \E n \in 1..MaxPages : cache = [p \in Papers |-> CachedPages(n)]
    /\ uploadsDir = {ResizedPdfName(CachedBaseName, p) : p \in Papers}
    /\ Init!3
    /\ up = [u \in UploadIds |-> IF u = 1 THEN UploadDone ELSE UploadIdle]
    /\ Init!5 /\ Init!6 /\ Init!7
    /\ history = [base |-> [b \in BaseNames |->
                               IF b = CachedBaseName THEN "returned" ELSE "new"],
                  bw |-> {}]
    /\ Init!9 /\ Init!10 /\ Init!11

NextCosts ==
    \/ \E r \in CostIds : CostLookup(r)
    \/ \E r \in CostIds : CostConvert(r)
    \/ \E r \in CostIds : CostWriteEnd(r)
    \/ \E r \in CostIds : CostRename(r)
    \/ \E r \in CostIds : CostScan(r)

SpecCosts == InitCosts /\ [][NextCosts]_vars

(***************************************************************************)
(* /delete-last (lines 620-640) on its own: the partitions hold the pages  *)
(* of some upload sessions, the route parameter is drawn, and the handler  *)
(* runs with no other request beside it.                                   *)
(***************************************************************************)
DeleteOriginalNames == LookupOriginalNames \cup { <<"a", "-", "b", ".", "p", "d", "f">> }

DeleteBaseNames == {UploadBaseName(SafeFilename(1, o)) : o \in DeleteOriginalNames}

\* The pages Ghostscript has rendered for the sessions.
DeletePageFiles ==
    {FileEntry(PageFileName(b, n), {}, TRUE, RenderedPage(n)) :
        b \in DeleteBaseNames, n \in 1..MaxPages}

\* The route parameters: the basenames, what the sanitizer makes of them,
\* and the timestamp a stored name starts with.
DeleteRaws ==
    DeleteBaseNames \cup {SanitizeBaseName(b) : b \in DeleteBaseNames}
        \cup {NatToStr(1), <<".">>}

\* Lines 621-635 for the partitions `dirs`: the partitions the handler
\* leaves and its answer.
DeleteLast(raw, dirs) ==
    LET baseName == SanitizeBaseName(raw)
    IN  IF baseName = <<>>
        THEN [dirs |-> dirs, sent |-> DeleteResponse(raw, FALSE, "Invalid basename")]
        ELSE [dirs |-> [p \in Papers |->
                           Unlinked(dirs[p], DeleteSelected(dirs[p], baseName))],
              sent |-> DeleteResponse(raw, TRUE, "")]

InitDelete ==
    /\ Init!1 /\ Init!2 /\ Init!3 /\ Init!4 /\ Init!5 /\ Init!6 /\ Init!7 /\ Init!8
    /\ Init!10 /\ Init!11
    /\ \E files \in SUBSET DeletePageFiles, raw \in DeleteRaws :
          /\ Cardinality(files) <= MaxListed
          /\ fn = [op |-> "args", raw |-> raw, dirs |-> [p \in Papers |-> files]]

DeleteApply ==
    /\ fn.op = "args"
    /\ fn' = [op |-> "delete", raw |-> fn.raw, before |-> fn.dirs,
              dirs |-> DeleteLast(fn.raw, fn.dirs).dirs,
              sent |-> DeleteLast(fn.raw, fn.dirs).sent]
    /\ UNCHANGED <<server, ledger, page>>

SpecDelete == InitDelete /\ [][DeleteApply]_vars

(***************************************************************************)
(* The checks of /calculate-cost before any page is read (lines 715-740)   *)
(* on their own: the body fields and the listing of the partition are      *)
(* drawn, and the failure the request ends with, if any, is computed.      *)
(***************************************************************************)
\* The message of the failure, or "" when the request goes on to line 742.
\* readdir of a directory that does not exist rejects (line 721), which the
\* catch of the handler answers with the message of the error.
CostFailureOf(paper, files, baseName, pages) ==
    IF paper = "" \/ baseName = <<>> THEN "Missing params"
    ELSE IF Len(SelectedPages(pages)) = 0 THEN "No pages selected"
    ELSE IF paper \notin Papers THEN "ENOENT: no such file or directory"
    ELSE IF Len(MatchedFiles(files, baseName, SelectedPages(pages))) = 0
         THEN "No cached images found."
    ELSE ""

InitChecks ==
    /\ Init!1 /\ Init!2 /\ Init!3 /\ Init!4 /\ Init!5 /\ Init!6 /\ Init!7 /\ Init!8
    /\ Init!10 /\ Init!11
    /\ \E names \in SUBSET {PageFileName(b, n) : b \in BaseNames, n \in 1..MaxPages} :
          /\ Cardinality(names) <= MaxListed
          /\ \E files \in Listings(names), paper \in RequestPapers,
                baseName \in RequestBaseNames, pages \in LookupPages :
                fn = [op |-> "args", paper |-> paper, files |-> files,
                      baseName |-> baseName, pages |-> pages]

ChecksApply ==
    /\ fn.op = "args"
    /\ fn' = [op |-> "checks", paper |-> fn.paper, files |-> fn.files,
              baseName |-> fn.baseName, pages |-> fn.pages,
              message |-> CostFailureOf(fn.paper, fn.files, fn.baseName, fn.pages)]
    /\ UNCHANGED <<server, ledger, page>>

SpecChecks == InitChecks /\ [][ChecksApply]_vars

(***************************************************************************)
(* scanUsedSections on its own: an image is drawn and scanned.             *)
(***************************************************************************)
Black == <<0, 0, 0>>

\* A pixel whose channels differ by one.
Blueish == <<0, 0, 1>>

\* An image of neutral pixels but for the positions <<y, x>> of `inked`.
ScanImage(height, width, paperColour, ink, inked) ==
    [y \in 1..height |->
        [x \in 1..width |-> IF <<y, x>> \in inked THEN ink ELSE paperColour]]

InitScan ==
    /\ Init!1 /\ Init!2 /\ Init!3 /\ Init!4 /\ Init!5 /\ Init!6 /\ Init!7 /\ Init!8
    /\ Init!10 /\ Init!11
    /\ \E height \in 1..MaxScanHeight, width \in 1..MaxScanWidth,
          paperColour \in {White, Black}, ink \in {Red, Blueish} :
          \E p \in (0..height) \X (1..width), q \in (0..height) \X (1..width) :
             fn = [op |-> "args",
                   img |-> ScanImage(height, width, paperColour, ink, {p, q})]

ScanApply ==
    /\ fn.op = "args"
    /\ fn' = [op |-> "scan", img |-> fn.img, used |-> ScanUsedSections(fn.img)]
    /\ UNCHANGED <<server, ledger, page>>

SpecScan == InitScan /\ [][ScanApply]_vars

(***************************************************************************)
(* The client (src/public/app.js): the page selection and the Proceed      *)
(* button.  The state of the page is drawn, and the selection is parsed    *)
(* or the button is clicked.                                               *)
(***************************************************************************)
\* A clamp that lets every number through.
ClampNone(x, totalPages) == x

\* Math.max(1, Math.min(x, totalPages)), lines 113, 114 and 122.
Clamp(x, totalPages) ==
    LET least == IF x < totalPages THEN x ELSE totalPages
    IN  IF least > 1 THEN least ELSE 1

\* /^\d+$/.test(part)
IsNumberPart(part) == AllDigits(part)

\* /^\d+-\d+$/.test(part)
IsRangePart(part) ==
    \E i \in 1..Len(part) : /\ part[i] = "-"
                             /\ AllDigits(SubSeq(part, 1, i - 1))
                             /\ AllDigits(SubSeq(part, i + 1, Len(part)))

\* The branch of lines 110-125 a part takes.
PartShape(part) ==
    IF IsRangePart(part) THEN "range"
    ELSE IF IsNumberPart(part) THEN "number"
    ELSE "dropped"

\* pages.add(i) for i of start..end, in a Set that keeps the insertion order.
RECURSIVE AddPages(_, _, _)
AddPages(pages, start, end) ==
    IF start > end THEN pages
    ELSE AddPages(IF \E k \in DOMAIN pages : pages[k] = start THEN pages
                  ELSE Append(pages, start),
                  start + 1, end)

\* correctedParts.join(", ")
RECURSIVE JoinParts(_)
JoinParts(parts) ==
    IF parts = <<>> THEN <<>>
    ELSE IF Len(parts) = 1 THEN parts[1]
    ELSE parts[1] \o <<",", " ">> \o JoinParts(Tail(parts))

\* The loop of lines 109-126 over the parts that are left.
RECURSIVE ParseParts(_, _, _, _)
ParseParts(ranges, totalPages, pages, correctedParts) ==
    IF ranges = <<>> THEN [pages |-> pages, value |-> JoinParts(correctedParts)]
    ELSE LET part == Head(ranges)
             dash == IndexOf(part, <<"-">>)
         IN  CASE PartShape(part) = "range" ->
                    LET a == Clamp(DigitsValue(SubSeq(part, 1, dash - 1)), totalPages)
                        b == Clamp(DigitsValue(SubSeq(part, dash + 1, Len(part))), totalPages)
                        start == IF a > b THEN b ELSE a
                        end == IF a > b THEN a ELSE b
                    IN  ParseParts(Tail(ranges), totalPages, AddPages(pages, start, end),
                                   Append(correctedParts,
                                          NatToStr(start) \o <<"-">> \o NatToStr(end)))
               [] PartShape(part) = "number" ->
                    LET num == Clamp(DigitsValue(part), totalPages)
                    IN  ParseParts(Tail(ranges), totalPages, AddPages(pages, num, num),
                                   Append(correctedParts, NatToStr(num)))
               [] OTHER -> ParseParts(Tail(ranges), totalPages, pages, correctedParts)

\* parsePageSelection, lines 102-130: the pages it returns and the text it
\* leaves in the field, which holds `input` when it is called (line 141).
ParsePageSelection(input, totalPages) ==
    IF input = <<>> THEN [pages |-> <<>>, value |-> input]
    ELSE LET split == SplitComma(input)
             ranges == [i \in DOMAIN split |-> Trim(split[i])]
         IN  ParseParts(ranges, totalPages, <<>>, <<>>)

\* The values of the page mode selector; "" stands for any other value.
PageModes == {"all", "odd", "even", "custom", ""}

\* getSelectedPages, lines 132-144.
GetSelectedPages(totalPages, pageMode, input) ==
    LET pages == [i \in 1..totalPages |-> i]
        Odd(n) == n % 2 # 0
        Even(n) == n % 2 = 0
        Kept(selected) == [pages |-> selected, value |-> input]
    IN  IF totalPages = 0 THEN Kept(<<>>)
        ELSE CASE pageMode = "all" -> Kept(pages)
               [] pageMode = "odd" -> Kept(SelectSeq(pages, Odd))
               [] pageMode = "even" -> Kept(SelectSeq(pages, Even))
               [] pageMode = "custom" -> ParsePageSelection(input, totalPages)
               [] OTHER -> Kept(<<>>)

\* The tokens the user types between commas.
Tokens ==
    { <<>>,
      <<"1">>,
      <<"0">>,
      <<"5">>,
      <<"9", "9">>,
      <<"5", "-", "2">>,
      <<"2", "-", "5">>,
      <<"1", "-", "9", "9">>,
      <<"0", "-", "0">>,
      <<"x">>,
      <<"-", "3">>,
      <<"3", "-">>,
      <<"1", "-", "2", "-", "3">>,
      <<" ", "2", " ">>,
      <<"2", " ", "-", " ", "3">> }

\* The texts of the page selection field.
RECURSIVE JoinTokens(_)
JoinTokens(tokens) ==
    IF tokens = <<>> THEN <<>>
    ELSE IF Len(tokens) = 1 THEN tokens[1]
    ELSE tokens[1] \o <<",">> \o JoinTokens(Tail(tokens))

Inputs == {JoinTokens(tokens) : tokens \in UNION {[1..n -> Tokens] : n \in 0..MaxTokens}}

InitClient ==
    /\ Init!1 /\ Init!2 /\ Init!3 /\ Init!4 /\ Init!5 /\ Init!6 /\ Init!7 /\ Init!8
    /\ Init!10 /\ Init!11
    /\ \E input \in Inputs, totalPages \in 0..MaxTotalPages, pageMode \in PageModes,
          lastUploadedBaseName \in {<<>>, <<"1", "-", "a">>} :
          fn = [op |-> "args", input |-> input, totalPages |-> totalPages,
                pageMode |-> pageMode, lastUploadedBaseName |-> lastUploadedBaseName]

\* parsePageSelection is called, as line 141 calls it, for a document that
\* has pages.
ParseApply ==
    /\ fn.op = "args"
    /\ fn.totalPages >= 1
    /\ fn.pageMode = "custom"
    /\ LET parsed == ParsePageSelection(fn.input, fn.totalPages)
       IN  fn' = [op |-> "parse", input |-> fn.input, totalPages |-> fn.totalPages,
                  pageMode |-> fn.pageMode,
                  lastUploadedBaseName |-> fn.lastUploadedBaseName,
                  pages |-> parsed.pages, value |-> parsed.value]
    /\ UNCHANGED <<server, ledger, page>>

\* A check of the selection that lets an empty selection through.
HasSelectionAlways(selectedPages) == TRUE

\* Line 241: selectedPages.length is not 0.
HasSelection(selectedPages) == Len(selectedPages) # 0

\* What a click on Proceed leaves: the selection, the alert shown, and the
\* requests sent, in their order.
Proceeded(selected, alert, requests) ==
    [op |-> "proceed", input |-> fn.input, totalPages |-> fn.totalPages,
     pageMode |-> fn.pageMode, lastUploadedBaseName |-> fn.lastUploadedBaseName,
     pages |-> selected.pages, value |-> selected.value, alert |-> alert,
     requests |-> requests]

\* The click handler of the Proceed button (lines 236-274).  The server
\* creates the transaction, refuses it, or the request fails; after a
\* creation the page goes to cost.html, whose script sends the cost request
\* (src/public/cost.js lines 19-36).
ProceedClick ==
    /\ fn.op = "args"
    /\ LET selected == GetSelectedPages(fn.totalPages, fn.pageMode, fn.input)
           nothing == [pages |-> <<>>, value |-> fn.input]
       IN  IF fn.lastUploadedBaseName = <<>>
           THEN fn' = Proceeded(nothing, "Upload a PDF first.", <<>>)
           ELSE IF ~HasSelection(selected.pages)
           THEN fn' = Proceeded(selected, "Select pages first.", <<>>)
           ELSE \/ fn' = Proceeded(selected, "",
                                   <<"/transaction/create", "/calculate-cost">>)
                \/ fn' = Proceeded(selected, "Transaction failed.",
                                   <<"/transaction/create">>)
                \/ fn' = Proceeded(selected, "Error creating transaction.",
                                   <<"/transaction/create">>)
    /\ UNCHANGED <<server, ledger, page>>

NextClient == ParseApply \/ ProceedClick

SpecClient == InitClient /\ [][NextClient]_vars

(***************************************************************************)
(* resizePDF (lines 538-579) on its own: the pages of the source, the      *)
(* target geometry and the page at which pdf-lib throws, if any, are       *)
(* drawn.                                                                  *)
(***************************************************************************)
\* A dimension used as the source gives it.
SafeDimRaw(x) == IF x.nan THEN 0 ELSE x.v

\* Lines 553-557: Math.max(1, isNaN(x) ? 1 : x).
SafeDim(x) ==
    LET sanitized == IF x.nan THEN 1 ELSE x.v
    IN  IF sanitized > 1 THEN sanitized ELSE 1

\* The page lines 560-573 add for a source page: its size, and the divisors
\* of scaleX and scaleY.
ResizedPage(size, targetWidth, targetHeight) ==
    [width |-> targetWidth, height |-> targetHeight,
     safeWidth |-> SafeDim(size.width), safeHeight |-> SafeDim(size.height)]

\* resizePDF: `failsAt` is the page at which embedPage or drawPage throws, 0
\* if none does; the output is written only after the loop (line 578).
ResizePDF(pages, targetWidth, targetHeight, failsAt) ==
    IF failsAt \in DOMAIN pages THEN [threw |-> TRUE, written |-> FALSE, pages |-> <<>>]
    ELSE [threw |-> FALSE, written |-> TRUE,
          pages |-> [i \in DOMAIN pages |->
                        ResizedPage(pages[i], targetWidth, targetHeight)]]

\* The target geometries of lines 679-680.
Targets == {<<612, 792>>, <<612, 1008>>}

\* Widths and heights of a source page.
SourceDims == {NaN, Num(0), Num(-1), Num(1), Num(612)}

InitResize ==
    /\ Init!1 /\ Init!2 /\ Init!3 /\ Init!4 /\ Init!5 /\ Init!6 /\ Init!7 /\ Init!8
    /\ Init!10 /\ Init!11
    /\ \E n \in 0..MaxSourcePages :
          \E pages \in [1..n -> [width : SourceDims, height : SourceDims]],
             target \in Targets, failsAt \in 0..n :
             fn = [op |-> "args", pages |-> pages, target |-> target, failsAt |-> failsAt]

ResizeApply ==
    /\ fn.op = "args"
    /\ fn' = [op |-> "resize", pages |-> fn.pages, target |-> fn.target,
              failsAt |-> fn.failsAt,
              out |-> ResizePDF(fn.pages, fn.target[1], fn.target[2], fn.failsAt)]
    /\ UNCHANGED <<server, ledger, page>>

SpecResize == InitResize /\ [][ResizeApply]_vars

(***************************************************************************)
(* The two rasterization adapters on their own, with the answer of the     *)
(* upload that calls them: convertPdfToPngsWithPdf2Pic of the older        *)
(* revision (lines 98-146, called at lines 259-285) and                    *)
(* convertPdfToPngsWithGhostscript (lines 503-535, called at 684-708).     *)
(***************************************************************************)
\* What an adapter returns or throws.
Returned(paths) == [threw |-> FALSE, paths |-> paths]

Thrown == [threw |-> TRUE, paths |-> <<>>]

\* Lines 126-145: `bulkRejects` is convert.bulk(-1) rejecting, `result` the
\* array it resolves to, of records with a name and a success flag.
ConvertPdfToPngsWithPdf2Pic(bulkRejects, result) ==
    IF bulkRejects THEN Thrown
    ELSE LET Ok(r) == r.success
             found == SelectSeq(result, Ok)
         IN  Returned([i \in DOMAIN found |-> found[i].name])

\* The kinds of stderr line 514 tells apart: empty, holding 'Warning', other.
StderrKinds == {"", "Warning", "Error"}

\* Lines 511-534: `execRejects` is the gs process failing, `files` the
\* listing of the output directory after it.
ConvertPdfToPngsWithGhostscript(execRejects, stderr, files, baseName) ==
    IF execRejects \/ stderr = "Error" THEN Thrown
    ELSE LET Keep(f) == StartsWith(f, baseName \o <<"_">>) /\ EndsWith(f, PNG)
             pngPaths == SelectSeq(files, Keep)
         IN  IF Len(pngPaths) = 0 THEN Thrown ELSE Returned(pngPaths)

\* The answer of the upload to the adapter's outcome (lines 687-708, and
\* lines 263-285 of the older revision).
UploadAnswer(outcome) ==
    IF outcome.threw THEN [success |-> FALSE, images |-> <<>>]
    ELSE [success |-> TRUE, images |-> outcome.paths]

\* The results convert.bulk may resolve to: one record for each page.
Pdf2PicResults ==
    UNION {[1..n -> [name : {PageFileName(<<"1", "-", "a">>, 1)}, success : BOOLEAN]]
             : n \in 0..MaxOutputs}

InitAdapter ==
    /\ Init!1 /\ Init!2 /\ Init!3 /\ Init!4 /\ Init!5 /\ Init!6 /\ Init!7 /\ Init!8
    /\ Init!10 /\ Init!11
    /\ \/ \E bulkRejects \in BOOLEAN, result \in Pdf2PicResults :
             fn = [op |-> "args", adapter |-> "pdf2pic", rejects |-> bulkRejects,
                   stderr |-> "", result |-> result, files |-> <<>>,
                   baseName |-> <<"1", "-", "a">>]
       \/ \E execRejects \in BOOLEAN, stderr \in StderrKinds,
             names \in SUBSET LookupFileNames, baseName \in LookupBaseNames :
             /\ Cardinality(names) <= MaxOutputs
             /\ \E files \in Listings(names) :
                   fn = [op |-> "args", adapter |-> "gs", rejects |-> execRejects,
                         stderr |-> stderr, result |-> <<>>, files |-> files,
                         baseName |-> baseName]

AdapterApply ==
    /\ fn.op = "args"
    /\ LET outcome == IF fn.adapter = "pdf2pic"
                      THEN ConvertPdfToPngsWithPdf2Pic(fn.rejects, fn.result)
                      ELSE ConvertPdfToPngsWithGhostscript(fn.rejects, fn.stderr,
                                                           fn.files, fn.baseName)
       IN  fn' = [op |-> "adapter", adapter |-> fn.adapter, rejects |-> fn.rejects,
                  stderr |-> fn.stderr, result |-> fn.result, files |-> fn.files,
                  baseName |-> fn.baseName, answer |-> UploadAnswer(outcome)]
    /\ UNCHANGED <<server, ledger, page>>

SpecAdapter == InitAdapter /\ [][AdapterApply]_vars

(***************************************************************************)
(* The cost formula.                                                       *)
(***************************************************************************)
\* round(x) for x = halves / 2, to the nearest integer, a half going up.
C1_Round(halves) == IF halves % 2 = 0 THEN halves \div 2 ELSE (halves + 1) \div 2

\* C1: a cost request that matched P >= 1 pages with U used bands and copy
\* count c is answered with success and totalCost = round((10 P + 0.5 U) c) in
\* colour mode and round(5 P c) in every other mode, whatever U is; colour,
\* P = 3, c = 2, U = 0 gives 60 and bw, P = 3, c = 2, U = 4 gives 30.
C1_CostFormula ==
    /\ (sent.kind = "cost" /\ sent.success) =>
          LET P == sent.totalPages
              U == sent.usedSections
              c == CopiesNumber(sent.copies)
          IN  /\ P >= 1
              /\ c.nan => sent.totalCost = NaN
              /\ ~c.nan /\ sent.color = "color" =>
                    sent.totalCost = Num(C1_Round((20 * P + U) * c.v))
              /\ ~c.nan /\ sent.color # "color" => sent.totalCost = Num(5 * P * c.v)
    /\ TotalCost("color", 3, 0, NumValue(2)) = Num(60)
    /\ TotalCost("bw", 3, 4, NumValue(2)) = Num(30)

\* A colour request on two pages with three used bands and one copy: 21.5
\* rounds to 22.
C1_Witness ==
    /\ sent.kind = "cost" /\ sent.success
    /\ sent.color = "color" /\ sent.totalPages = 2 /\ sent.usedSections = 3
    /\ sent.copies = NumValue(1) /\ sent.totalCost = Num(22)

(***************************************************************************)
(* The lookup of the cost request.                                         *)
(***************************************************************************)
\* File f is page n of baseName for a selected page number n.
C2_IsSelectedPage(f, baseName, pages) ==
    \E n \in 0..(MaxPages + 1) :
        /\ f = PageFileName(baseName, n)
        /\ \E i \in DOMAIN SelectedPages(pages) : SelectedPages(pages)[i] = Num(n)

\* C2: a cost request for which no file of the requested partition has the
\* basename prefix and a selected page number is answered with success:false,
\* and it modifies no cached file: the lookup goes on to the pages only when
\* a file of the partition is a selected page, it answers with a failure
\* otherwise, and it leaves both partitions as they are.
C2_MissFails ==
    [][\A r \in CostIds :
          (cost[r].pc = "idle" /\ cost'[r].pc # "idle") =>
              /\ cache' = cache
              /\ cost'[r].pc # "done" =>
                    \E f \in NamesOf(cache[cost'[r].paper]) :
                        C2_IsSelectedPage(f, cost'[r].baseName, cost'[r].pages)
              /\ cost'[r].pc = "done" =>
                    /\ sent'.kind = "cost" /\ ~sent'.success
                    /\ sent'.totalCost = NaN]_vars

\* A lookup missed although the partitions hold pages.
C2_Witness ==
    /\ sent.kind = "cost" /\ ~sent.success
    /\ sent.message = "No cached images found."
    /\ \A p \in Papers : cache[p] # {}

(***************************************************************************)
(* Cleanup.                                                                *)
(***************************************************************************)
\* C3: after /delete-last/b has completed for a basename b that a successful
\* upload had returned, and until an upload of b arrives again, no file whose
\* name starts with b_ or b- is left in the letter or the legal partition (so
\* that every cost request for b misses).
C3_DeleteLeavesNoPage ==
    \A b \in BaseNames :
        history.base[b] = "cleaned" =>
            \A p \in Papers : \A f \in NamesOf(cache[p]) :
                /\ ~StartsWith(f, b \o <<"_">>)
                /\ ~StartsWith(f, b \o <<"-">>)

(***************************************************************************)
(* The two partitions.                                                     *)
(***************************************************************************)
\* The cached pages of basename b in a partition.
C4_Pages(p, b) == {n \in 1..MaxPages : HasFile(cache[p], PageFileName(b, n))}

\* No request is being handled.
C4_Quiet ==
    /\ \A u \in UploadIds : up[u].pc \in {"idle", "done"}
    /\ \A r \in CostIds : cost[r].pc \in {"idle", "done"}
    /\ \A d \in DeleteIds : del[d].pc \in {"idle", "done"}

\* C4: in every reachable state the letter partition and the legal partition
\* hold the same number of cached pages of a basename.  The claim covers the
\* states during a request too; stated here for the states it covers in which
\* no request is being handled.
C4_EqualPageCounts ==
    C4_Quiet =>
        \A b \in BaseNames :
            Cardinality(C4_Pages("letter", b)) = Cardinality(C4_Pages("legal", b))

(***************************************************************************)
(* Readers during a rasterization.                                         *)
(***************************************************************************)
\* What the lookup of a cost request for all N pages of basename b keeps of
\* partition p in the current state.
C5_Seen(p, b, N) == LookupHits(cache[p], b, [i \in 1..N |-> Num(i)])

\* C5: while an upload rasterizes its N pages into a partition, a reader of
\* the partition (the lookup of a cost request, a static fetch) sees none of
\* the upload's pages or all N of them, never only some.
C5_NoneOrAll ==
    \A u \in UploadIds :
        up[u].pc \in {"gsletter", "gslegal"} =>
            Cardinality(C5_Seen(GsPaper(up[u]), up[u].baseName, up[u].pages))
                \in {0, up[u].pages}

(***************************************************************************)
(* The grayscale transform.                                                *)
(***************************************************************************)
\* C7: in every reachable state the file at the path of a cached page holds
\* the complete as-rasterized image or the complete grayscale image, never
\* partially written content.
C7_PageFilesComplete ==
    \A p \in Papers, b \in BaseNames, n \in 1..MaxPages :
        HasFile(cache[p], PageFileName(b, n)) =>
            LET e == EntryOf(cache[p], PageFileName(b, n))
            IN  /\ e.ok
                /\ e.img \in {RenderedPage(n), Greyscale(RenderedPage(n))}

\* The image has no colour: every pixel has three equal channels.
C6_IsGray(img) ==
    \A y \in DOMAIN img : \A x \in DOMAIN img[y] :
        img[y][x][1] = img[y][x][2] /\ img[y][x][2] = img[y][x][3]

\* C6: once a "bw" cost request has replaced a cached page by its grayscale
\* transform, and until an upload rasterizes the page again or the page is
\* removed, the file of the page is a grayscale image, of which a cost request
\* counts 0 used bands.
C6_StaysGray ==
    \A m \in history.bw :
        /\ Readable(cache[m[1]], m[2])
        /\ C6_IsGray(EntryOf(cache[m[1]], m[2]).img)
        /\ ScanUsedSections(EntryOf(cache[m[1]], m[2]).img) = 0

\* The one-way part alone: a page that a "bw" request has replaced, when its
\* file is a complete image, is never a colour image again.
C6_NeverColourAgain ==
    \A m \in history.bw :
        Readable(cache[m[1]], m[2]) =>
            /\ C6_IsGray(EntryOf(cache[m[1]], m[2]).img)
            /\ ScanUsedSections(EntryOf(cache[m[1]], m[2]).img) = 0

\* C8: a cost request whose colour mode is not "bw" leaves the cached files
\* as they are: none of its steps changes the content or the set of files of
\* a partition.
C8_OtherModesLeaveCache ==
    [][\A r \in CostIds :
          (/\ cost'[r] # cost[r]
           /\ \/ cost[r].pc # "idle" /\ cost[r].color # "bw"
              \/ cost[r].pc = "idle" /\ cost'[r].color # "bw")
              => cache' = cache]_vars

\* A request in another mode than "bw" and "color" has scanned a page that
\* holds colour, and the page is unchanged.
C8_Witness ==
    /\ sent.kind = "cost" /\ sent.success
    /\ sent.color = "grey" /\ sent.totalPages = 1 /\ sent.usedSections = 1
    /\ \E p \in Papers, b \in BaseNames :
          /\ HasFile(cache[p], PageFileName(b, 1))
          /\ EntryOf(cache[p], PageFileName(b, 1)) =
                FileEntry(PageFileName(b, 1), {}, TRUE, RenderedPage(1))

(***************************************************************************)
(* The order of the matched files.                                         *)
(***************************************************************************)
\* The page index of file f of basename b: n for the n-th page, -1 for a file
\* that is no page of b.
C9_PageIndex(f, b) ==
    IF \E n \in 0..9 : f = PageFileName(b, n)
    THEN CHOOSE n \in 0..9 : f = PageFileName(b, n)
    ELSE -1

\* The page numbers a pages parameter selects.
C9_Requested(pages) ==
    {n \in 0..9 : \E i \in DOMAIN SelectedPages(pages) : SelectedPages(pages)[i] = Num(n)}

\* C9: for a set of file names present in a partition, a basename and a
\* requested page set, the matched files of the cost endpoint's lookup are
\* strictly ascending by page index (no two of them share an index), and each
\* is a listed file whose index is in the requested set.
C9_MatchedAscending ==
    fn.op = "lookup" =>
        /\ \A i \in DOMAIN fn.matched :
              /\ \E j \in DOMAIN fn.files : fn.files[j] = fn.matched[i]
              /\ C9_PageIndex(fn.matched[i], fn.baseName) \in C9_Requested(fn.pages)
        /\ \A i, j \in DOMAIN fn.matched :
              i < j => C9_PageIndex(fn.matched[i], fn.baseName)
                         < C9_PageIndex(fn.matched[j], fn.baseName)

\* Page 2 was listed before page 1, with a temporary file, and both pages are
\* matched.
C9_Witness ==
    /\ fn.op = "lookup"
    /\ Len(fn.files) = 3 /\ Len(fn.matched) = 2
    /\ fn.files[1] = PageFileName(fn.baseName, 2)
    /\ fn.files[3] = PageFileName(fn.baseName, 1)
    /\ fn.matched = <<fn.files[3], fn.files[1]>>

(***************************************************************************)
(* The basename of an upload.                                              *)
(***************************************************************************)
\* C10: the baseName a successful upload returns consists only of letters,
\* digits, '_' and '-'.
C10_BaseNameSafe ==
    (sent.kind = "upload" /\ sent.success) =>
        \A i \in DOMAIN sent.baseName :
            \/ IsLetter(sent.baseName[i])
            \/ IsDigit(sent.baseName[i])
            \/ sent.baseName[i] \in {"_", "-"}

(***************************************************************************)
(* The response of an upload.                                              *)
(***************************************************************************)
\* No request but one upload, which has been answered, has arrived.
C11_OnlyOneUpload ==
    /\ Cardinality({u \in UploadIds : up[u].pc = "done"}) = 1
    /\ \A u \in UploadIds : up[u].pc \in {"idle", "done"}
    /\ \A r \in CostIds : cost[r].pc = "idle"
    /\ \A d \in DeleteIds : del[d].pc = "idle"

\* C11: after a successful upload of an N-page PDF with no other request in
\* flight, each partition holds exactly the N pages of the new basename, and
\* each of the lists images.letter and images.legal of the response has N
\* entries, entry i being page i.
C11_ListsIndexPages ==
    (sent.kind = "upload" /\ sent.success /\ C11_OnlyOneUpload) =>
        LET N == sent.totalPages
            b == sent.baseName
        IN  /\ \A p \in Papers :
                  NamesOf(cache[p]) = {PageFileName(b, n) : n \in 1..N}
            /\ Len(sent.letter) = N /\ Len(sent.legal) = N
            /\ \A i \in 1..N : /\ sent.letter[i] = PageFileName(b, i)
                                /\ sent.legal[i] = PageFileName(b, i)

(***************************************************************************)
(* The clearing of the caches by an upload.                                *)
(***************************************************************************)
\* A page of another basename than b2 is cached.
C12_StalePage(b2) ==
    \E p \in Papers, b1 \in BaseNames \ {b2}, n \in 1..MaxPages :
        HasFile(cache[p], PageFileName(b1, n))

\* C12: once an upload with basename b2 has cleared the caches, and until it
\* has answered, no cached page of another, earlier basename is left in
\* either partition.
C12_NoStalePage ==
    /\ \A u \in UploadIds :
          up[u].pc \in {"resize", "gsletter", "gslegal"} => ~C12_StalePage(up[u].baseName)
    /\ (sent.kind = "upload" /\ sent.success) => ~C12_StalePage(sent.baseName)

(***************************************************************************)
(* An engine that writes nothing.                                          *)
(***************************************************************************)
\* The engine has ended without a fatal error and has produced no output
\* file for the basename.
C13_NoOutput ==
    /\ ~fn.rejects /\ fn.stderr # "Error"
    /\ \A i \in DOMAIN fn.result : ~fn.result[i].success
    /\ \A i \in DOMAIN fn.files :
          ~(StartsWith(fn.files[i], fn.baseName \o <<"_">>) /\ EndsWith(fn.files[i], PNG))

\* C13: when the rasterization engine ends without a fatal error and has
\* produced no output page file for the basename, the adapter fails and the
\* upload answers success:false, with the pdf2pic adapter as with the
\* Ghostscript adapter.
C13_NoOutputFails ==
    (fn.op = "adapter" /\ C13_NoOutput) => ~fn.answer.success

(***************************************************************************)
(* Uploads rejected by the validation of the request.                      *)
(***************************************************************************)
\* C14: an upload rejected by input validation (a file that is not of mime
\* type application/pdf, or no file) answers success:false and leaves both
\* cache partitions and the uploads directory as they were.
C14_RejectionKeepsFiles ==
    [][\A u \in UploadIds :
          (up[u].pc = "idle" /\ up'[u].pc = "done") =>
              /\ sent'.kind = "upload" /\ ~sent'.success
              /\ cache' = cache
              /\ uploadsDir' = uploadsDir]_vars

\* A request is rejected for its mime type while files are cached and stored.
C14_Witness ==
    /\ sent.kind = "upload"
    /\ sent.message = "Only PDF files are allowed"
    /\ uploadsDir # {}
    /\ \A p \in Papers : cache[p] # {}

(***************************************************************************)
(* The answer of /delete-last and the form of its parameter.               *)
(***************************************************************************)
\* A well-formed basename: not empty, only alphanumerics, '_' and '-'.
C15_WellFormed(raw) ==
    /\ raw # <<>>
    /\ \A i \in DOMAIN raw : IsLetter(raw[i]) \/ IsDigit(raw[i]) \/ raw[i] \in {"_", "-"}

\* C15: /delete-last answers success:true for every well-formed basename,
\* whether or not an artifact exists for it, and success:false for a
\* malformed basename, for which it deletes no file.
C15_AnswerFollowsForm ==
    sent.kind = "delete" => (sent.success <=> C15_WellFormed(sent.raw))

(***************************************************************************)
(* The failures of the cost endpoint.                                      *)
(***************************************************************************)
\* A page number as the pages parameter writes it: digits, spaces around.
C16_IsPageNumber(token) == Trim(token) # <<>> /\ AllDigits(Trim(token))

\* The pages parameter is empty or none of its tokens is a page number.
C16_NoValidPage(pages) ==
    \/ pages = <<>>
    \/ \A i \in DOMAIN SplitComma(pages) : ~C16_IsPageNumber(SplitComma(pages)[i])

\* No listed file is a page of the basename that the parameter selects.
C16_NoPageCached(files, baseName, pages) ==
    \A i \in DOMAIN files, n \in 0..9 :
        files[i] = PageFileName(baseName, n) =>
            \A j \in DOMAIN SplitComma(pages) :
                Trim(SplitComma(pages)[j]) # NatToStr(n)

\* C16: the cost endpoint tells three failures apart: an empty pages
\* parameter, or one with no valid page number, gives 'No pages selected';
\* an absent partition directory gives another failure; selected pages with
\* no matching cached file give 'No cached images found.'.
C16_ThreeFailures ==
    (fn.op = "checks" /\ fn.paper # "" /\ fn.baseName # <<>>) =>
        IF C16_NoValidPage(fn.pages) THEN fn.message = "No pages selected"
        ELSE IF fn.paper \notin Papers
             THEN fn.message \notin {"", "No pages selected", "No cached images found."}
        ELSE C16_NoPageCached(fn.files, fn.baseName, fn.pages)
                => fn.message = "No cached images found."

(***************************************************************************)
(* The bands of the ink-usage scanner.                                     *)
(***************************************************************************)
\* The pixels of the image (row and column from 0) whose channels differ.
C17_Inked(img) ==
    {yx \in (0..(Len(img) - 1)) \X (0..(Len(img[1]) - 1)) :
        LET px == img[yx[1] + 1][yx[2] + 1]
        IN  ~(px[1] = px[2] /\ px[2] = px[3])}

\* The rows of band i: [i*s, (i+1)*s) with s = max(1, floor(height/12)), the
\* last band reaching the last row.
C17_BandRows(i, height) ==
    LET s == IF height \div 12 >= 1 THEN height \div 12 ELSE 1
    IN  {y \in 0..(height - 1) : /\ i * s <= y
                                  /\ (i = 11 \/ y < (i + 1) * s)}

\* C17: for every image of height >= 1, scanUsedSections returns an integer
\* of 0..12, the number of the 12 bands that hold a pixel with unequal R, G,
\* B; an image of neutral pixels only returns 0 and an image with exactly one
\* pixel that is not neutral returns 1.
C17_CountsInkedBands ==
    fn.op = "scan" =>
        LET inked == C17_Inked(fn.img)
        IN  /\ fn.used \in 0..12
            /\ fn.used = Cardinality({i \in 0..11 :
                              \E yx \in inked : yx[1] \in C17_BandRows(i, Len(fn.img))})
            /\ inked = {} => fn.used = 0
            /\ Cardinality(inked) = 1 => fn.used = 1

\* An image higher than 12 rows, of a height 12 does not divide, is scanned
\* with its only inked pixel in the last row.
C17_Witness ==
    /\ fn.op = "scan"
    /\ Len(fn.img) > 12 /\ Len(fn.img) % 12 # 0
    /\ C17_Inked(fn.img) = {<<Len(fn.img) - 1, 0>>}
    /\ fn.used = 1

(***************************************************************************)
(* The page selection parser.                                              *)
(***************************************************************************)
C18_Set(pages) == {pages[i] : i \in DOMAIN pages}

\* The text b-a of a text a-b.
C18_Reversed(part) ==
    LET dash == IndexOf(part, <<"-">>)
    IN  SubSeq(part, dash + 1, Len(part)) \o <<"-">> \o SubSeq(part, 1, dash - 1)

\* C18: for every page count N >= 1 and every text, each page number that
\* parsePageSelection returns lies in 1..N; a range a-b with a > b gives the
\* pages of b-a ("5-2" with N = 10 gives {2,3,4,5} and the canonical text
\* "2-5"), and "0,99" with N = 10 gives {1,10}.
C18_PagesInRange ==
    fn.op = "parse" =>
        /\ \A i \in DOMAIN fn.pages : fn.pages[i] \in 1..fn.totalPages
        /\ IsRangePart(fn.input) =>
              C18_Set(fn.pages) =
                  C18_Set(ParsePageSelection(C18_Reversed(fn.input), fn.totalPages).pages)
        /\ (fn.input = <<"5", "-", "2">> /\ fn.totalPages = 10) =>
              /\ C18_Set(fn.pages) = {2, 3, 4, 5}
              /\ fn.value = <<"2", "-", "5">>
        /\ (fn.input = <<"0", ",", "9", "9">> /\ fn.totalPages = 10) =>
              C18_Set(fn.pages) = {1, 10}

\* "5-2" is parsed for a document of 10 pages.
C18_Witness ==
    /\ fn.op = "parse"
    /\ fn.input = <<"5", "-", "2">> /\ fn.totalPages = 10
    /\ fn.pages = <<2, 3, 4, 5>>

(***************************************************************************)
(* Tokens the parser drops, and the empty selection.                       *)
(***************************************************************************)
\* A token that is a single integer or a-b, spaces around it aside.
C19_IsValid(token) == IsNumberPart(Trim(token)) \/ IsRangePart(Trim(token))

\* The text of the valid tokens of a text, in their order.
C19_ValidOnly(input) ==
    LET Valid(token) == C19_IsValid(token)
    IN  JoinTokens(SelectSeq(SplitComma(input), Valid))

\* C19: parsePageSelection ignores every token that is neither a single
\* integer nor a-b and returns no page when the text is empty or has no
\* valid token; when the selected page set is empty, Proceed creates no
\* ledger transaction and issues no cost request.
C19_EmptySelectionStops ==
    /\ fn.op = "parse" =>
          /\ fn.pages = ParsePageSelection(C19_ValidOnly(fn.input), fn.totalPages).pages
          /\ C19_ValidOnly(fn.input) = <<>> => fn.pages = <<>>
    /\ (fn.op = "proceed" /\ fn.pages = <<>>) => fn.requests = <<>>

\* Proceed is clicked with an uploaded document and a custom selection
\* that holds malformed tokens only.
C19_Witness ==
    /\ fn.op = "proceed"
    /\ fn.lastUploadedBaseName # <<>> /\ fn.totalPages >= 1
    /\ fn.pageMode = "custom"
    /\ fn.input = <<"x", ",", "3", "-">>
    /\ fn.alert = "Select pages first."
    /\ fn.requests = <<>>

(***************************************************************************)
(* What the static routes expose.                                          *)
(***************************************************************************)
\* The normalized PDFs of the basenames and the stored source files.
C20_Private ==
    {ResizedPdfName(b, p) : b \in BaseNames, p \in Papers}
        \cup {SafeFilename(t, o) : t \in 1..MaxClock, o \in OriginalNames}

\* C20: no normalized PDF and no transient uploaded source PDF can be
\* fetched through a static route; only the files of the cache partitions
\* are served.
C20_OnlyCacheServed ==
    \A s \in StaticFiles : s.mount = "/cache" /\ s.name \notin C20_Private

(***************************************************************************)
(* The rows /transaction/create inserts.                                   *)
(***************************************************************************)
\* A row whose fields pass the validation the claim lists.
C21_ValidRow(row) ==
    /\ Len(row.Date) = 4 /\ \A i \in 1..4 : IsDigit(row.Date[i])
    /\ row.Copies >= 1
    /\ row.Color \in {"bw", "color"}
    /\ row.Pages # <<>>
    /\ \A i \in DOMAIN row.Pages :
          IsDigit(row.Pages[i]) \/ row.Pages[i] \in {",", "-", " "}
    /\ row.Paper_Size \in {"letter", "legal"}
    /\ Len(row.File_Path) <= 200

\* C21: /transaction/create inserts a row only for a draft that passes the
\* validation; every inserted row has Amount >= 0 and one of the four
\* statuses; a refused draft or a persistence error gives success:false with
\* a message and no row.
C21_CreateValidates ==
    [][sent'.kind = "create" =>
          IF sent'.success
          THEN /\ Len(ledger') = Len(ledger) + 1
               /\ sent'.id = Len(ledger')
               /\ SubSeq(ledger', 1, Len(ledger)) = ledger
               /\ C21_ValidRow(ledger'[sent'.id])
               /\ ledger'[sent'.id].Amount >= 0
               /\ ledger'[sent'.id].Status \in
                     {"pending", "printing", "completed", "cancelled"}
          ELSE sent'.message # "" /\ ledger' = ledger]_vars

\* A second row has been inserted, with the amount and the status the
\* handler falls back to.
C21_Witness ==
    /\ sent.kind = "create" /\ sent.success /\ sent.id = 2
    /\ Len(ledger) = 2
    /\ ledger[2].Amount = 0 /\ ledger[2].Status = "pending"

(***************************************************************************)
(* What /transaction/update overwrites.                                    *)
(***************************************************************************)
\* The amount the claim has stored: the number sent, 0 for what is no number.
C22_Amount(Amount) ==
    CASE Amount.t = "num" -> Amount.n
      [] Amount.t = "str" /\ Amount.s # <<>> /\ \A i \in DOMAIN Amount.s : IsDigit(Amount.s[i])
            -> DigitsValue(Amount.s)
      [] OTHER -> 0

\* The status the claim has stored.
C22_Status(Status) ==
    IF Status \in {"pending", "printing", "completed", "cancelled"} THEN Status
    ELSE "pending"

\* C22: /transaction/update checks neither the row nor the transition: an
\* existing row in any status takes any allowed status sent (completed ->
\* pending included), a status that is not allowed is stored as "pending",
\* an amount that is no number as 0, and an update for an id with no row
\* answers success:true and changes no row.
C22_UpdateOverwrites ==
    (fn.op = "update" /\ sent.success) =>
        /\ Len(ledger) = Len(fn.before)
        /\ \A i \in DOMAIN ledger :
              IF i = fn.id
              THEN ledger[i] = [fn.before[i] EXCEPT !.Amount = C22_Amount(fn.Amount),
                                                    !.Status = C22_Status(fn.Status)]
              ELSE ledger[i] = fn.before[i]

\* A completed row has been set back to pending.
C22_Witness ==
    /\ fn.op = "update" /\ sent.kind = "update" /\ sent.success
    /\ fn.id \in DOMAIN ledger
    /\ fn.before[fn.id].Status = "completed"
    /\ fn.Status = "pending"
    /\ ledger[fn.id].Status = "pending"

(***************************************************************************)
(* The PDF normalizer.                                                     *)
(***************************************************************************)
\* C23: resizePDF writes, for each target geometry, an output of as many
\* pages as the source, and for every source page size, a width or height of
\* 0 or NaN included, the divisor of each scale factor is at least 1.
C23_SamePageCount ==
    (fn.op = "resize" /\ fn.out.written) =>
        /\ Len(fn.out.pages) = Len(fn.pages)
        /\ \A i \in DOMAIN fn.out.pages :
              /\ fn.out.pages[i].safeWidth >= 1
              /\ fn.out.pages[i].safeHeight >= 1
              /\ fn.out.pages[i].width = fn.target[1]
              /\ fn.out.pages[i].height = fn.target[2]

\* A document of two pages, one of size (0, 0) and one with a NaN width, is
\* normalized to legal.
C23_Witness ==
    /\ fn.op = "resize" /\ fn.out.written
    /\ fn.target = <<612, 1008>>
    /\ Len(fn.pages) = 2
    /\ fn.pages[1] = [width |-> Num(0), height |-> Num(0)]
    /\ fn.pages[2].width = NaN
    /\ Len(fn.out.pages) = 2

(***************************************************************************)
(* The order of the steps of an upload.                                    *)
(***************************************************************************)
\* The phases of the handler in the order of lines 646-700.
C24_Phase(pc) ==
    CASE pc = "idle" -> 0
      [] pc = "clear" -> 1
      [] pc = "unlink" -> 2
      [] pc = "resize" -> 3
      [] pc = "gsletter" -> 4
      [] pc = "gslegal" -> 5
      [] OTHER -> 6

\* C24: in an upload that answers success, both cache partitions are cleared
\* before a normalization starts, both normalizations have written their
\* files before a rasterization starts, and the source is deleted before the
\* response; after a failed normalization no rasterization starts.
C24_StepsInOrder ==
    [][\A u \in UploadIds :
          LET old == up[u]  new == up'[u]
          IN  new.pc # old.pc =>
                \* a phase follows the one before it, or the handler ends
                /\ new.pc = "done" \/ C24_Phase(new.pc) = C24_Phase(old.pc) + 1
                /\ old.pc # "done"
                \* the files the clear has listed are gone when it ends
                /\ (new.pc = "resize") =>
                      \A p \in Papers : NamesOf(cache'[p]) \cap old.listed[p] = {}
                \* both normalized PDFs are written when rasterization starts
                /\ (new.pc = "gsletter") =>
                      \A p \in Papers : ResizedPdfName(old.baseName, p) \in uploadsDir'
                \* a failure ends the handler
                /\ (sent'.kind = "upload" /\ ~sent'.success) => new.pc = "done"
                \* success is sent after the legal rasterization, the source gone
                /\ (sent'.kind = "upload" /\ sent'.success) =>
                      /\ old.pc = "gslegal" /\ new.pc = "done"
                      /\ old.filename \notin uploadsDir']_vars

\* An upload of two pages has answered success.
C24_Witness ==
    /\ sent.kind = "upload" /\ sent.success
    /\ sent.totalPages = 2
    /\ \A p \in Papers : ResizedPdfName(sent.baseName, p) \in uploadsDir

(***************************************************************************)
(* The two rasterizations of an upload.                                    *)
(***************************************************************************)
\* The letter rasterization of the upload has been called and has not ended.
C25_LetterRunning(u) == up[u].pc = "gsletter"

\* The legal rasterization of the upload has been called.
C25_LegalStarted(u) == up[u].pc = "gslegal"

\* C25: the letter and the legal rasterization of an upload are issued as a
\* pair, the legal one not waiting for the letter one to end: while the
\* letter rasterization runs, the legal one has started too.
C25_IssuedAsPair ==
    \A u \in UploadIds : C25_LetterRunning(u) => C25_LegalStarted(u)

(***************************************************************************)
(* A failed legal rasterization after the letter one.                      *)
(***************************************************************************)
\* The names of the page files.
C26_PageFiles == {PageFileName(b, n) : b \in BaseNames, n \in 1..MaxPages}

\* The step unlinks the file for the clear of an upload or for a cleanup.
C26_Unlinks(p, name) ==
    \/ \E u \in UploadIds : up[u].pc = "unlink" /\ up'[u].pc # "unlink"
                              /\ name \in up[u].listed[p]
    \/ \E d \in DeleteIds : del[d].pc = "unlink" /\ del[d].folder = p
                              /\ name \in del[d].names

\* C26: when the letter rasterization has succeeded and the legal one fails,
\* the upload answers success:false and the letter pages stay in the letter
\* partition, with no rollback, until the clear of a later upload or a
\* cleanup removes them.
C26_NoRollback ==
    [][/\ \A u \in UploadIds :
            (up[u].pc = "gslegal" /\ up'[u].pc = "done"
                /\ ~(sent'.kind = "upload" /\ sent'.success)) =>
                /\ sent'.kind = "upload" /\ ~sent'.success
                /\ cache' = cache
       /\ \A p \in Papers, name \in C26_PageFiles :
            (HasFile(cache[p], name) /\ ~HasFile(cache'[p], name)) => C26_Unlinks(p, name)
      ]_vars

\* An upload has failed with its letter pages cached and no legal page.
C26_Witness ==
    /\ sent.kind = "upload" /\ ~sent.success
    /\ sent.message = "Ghostscript conversion failed"
    /\ \E b \in BaseNames :
          /\ NamesOf(cache["letter"]) = {PageFileName(b, n) : n \in 1..2}
          /\ history.base[b] = "new"
    /\ cache["legal"] = {}

(***************************************************************************)
(* Two uploads at the same time.                                           *)
(***************************************************************************)
\* A page the response lists is not in its partition.
C27_ListedPageAbsent ==
    \/ \E i \in DOMAIN sent.letter : ~HasFile(cache["letter"], sent.letter[i])
    \/ \E i \in DOMAIN sent.legal : ~HasFile(cache["legal"], sent.legal[i])

\* C27: two uploads of different basenames handled at the same time can
\* interleave so that the clear of one deletes pages the other has
\* rasterized, and an upload answers success while a page file it lists is
\* absent from the cache; an upload handled alone lists cached pages only.
C27_LossNeedsAnotherUpload ==
    (sent.kind = "upload" /\ sent.success /\ C27_ListedPageAbsent) =>
        Cardinality({u \in UploadIds : up[u].pc # "idle"}) >= 2

\* An upload has answered success with a listed letter page absent, while an
\* upload of another basename has cleared the caches and goes on.
C27_Witness ==
    /\ sent.kind = "upload" /\ sent.success
    /\ \E i \in DOMAIN sent.letter : ~HasFile(cache["letter"], sent.letter[i])
    /\ \E v \in UploadIds : /\ up[v].pc \in {"resize", "gsletter", "gslegal"}
                              /\ up[v].baseName # sent.baseName

(***************************************************************************)
(* The pages of one cost request, one at a time.                           *)
(***************************************************************************)
\* The pages left to process are in ascending page order.
C28_Ascending(rec) ==
    \A i \in 1..(Len(rec.matched) - 1) :
        PageNumberOf(rec.matched[i], rec.baseName).v
            < PageNumberOf(rec.matched[i + 1], rec.baseName).v

\* C28: within one /calculate-cost request the matched pages are processed
\* one at a time in ascending page order: the transform of a page ends
\* before its scan starts, and the transform of the next page starts only
\* after the scan of the page.
C28_OnePageAtATime ==
    [][\A r \in CostIds :
          LET old == cost[r]  new == cost'[r]
          IN  (new # old /\ new.pc # "done") =>
                /\ C28_Ascending(new)
                \* the transform of a page starts on arrival or after a scan
                /\ (new.pc = "convert") => old.pc \in {"idle", "scan"}
                /\ (new.pc = "writing") => old.pc = "convert"
                /\ (new.pc = "rename") => old.pc = "writing"
                \* the scan of a page follows the end of its transform
                /\ (new.pc = "scan" /\ new.color = "bw") => old.pc \in {"convert", "rename"}
                /\ (new.pc = "scan" /\ new.color # "bw") => old.pc \in {"idle", "scan"}
                \* the page changes when its scan has ended, to the next one
                /\ IF old.pc = "scan" THEN new.matched = Tail(old.matched)
                   ELSE old.pc # "idle" => new.matched = old.matched]_vars

\* A "bw" request for two pages scans its second page.
C28_Witness ==
    \E r \in CostIds :
        /\ cost[r].pc = "scan" /\ cost[r].color = "bw"
        /\ cost[r].totalPages = 2 /\ Len(cost[r].matched) = 1
        /\ PageNumberOf(cost[r].matched[1], cost[r].baseName) = Num(2)

(***************************************************************************)
(* Rows in a terminal status.                                              *)
(***************************************************************************)
C29_Terminal(row) == row.Status \in {"completed", "cancelled"}

\* C29: a ledger row whose Status is terminal (completed or cancelled) is
\* changed by no later request: its Amount and Status stay as they were
\* when it became terminal.
C29_TerminalRowsFrozen ==
    [][\A i \in DOMAIN ledger :
          C29_Terminal(ledger[i]) =>
              /\ i \in DOMAIN ledger'
              /\ ledger'[i].Amount = ledger[i].Amount
              /\ ledger'[i].Status = ledger[i].Status]_vars

(***************************************************************************)
(* The Print button and the cost.                                          *)
(***************************************************************************)
\* C30: in the cost page flow a transaction is set to "printing" only after
\* /calculate-cost has answered success for the job, with Amount equal to
\* the totalCost of the answer and a payment of at least that totalCost;
\* Print cannot move it to printing while the cost is unknown or after the
\* cost calculation has failed.
C30_PrintingAfterCost ==
    [][\A i \in DOMAIN ledger :
          (ledger[i].Status # "printing" /\ ledger'[i].Status = "printing") =>
              /\ page.calc = "ok"
              /\ ledger'[i].Amount = page.totalCost
              /\ ~StrToNumber(page.payment).nan
              /\ StrToNumber(page.payment).v >= page.totalCost]_vars

(***************************************************************************)
(* The total cost of a successful answer.                                  *)
(***************************************************************************)
\* C31: every successful /calculate-cost response carries a totalCost that
\* is a positive integer, whatever the copies field of the request body
\* (0, a negative number, a non-numeric string) and whatever the cache.
C31_TotalCostPositive ==
    (sent.kind = "cost" /\ sent.success) =>
        /\ ~sent.totalCost.nan
        /\ sent.totalCost.v > 0

(***************************************************************************)
(* What /delete-last removes.                                              *)
(***************************************************************************)
\* The cached pages of the session whose basename is exactly b.
C32_PagesOf(b) == {PageFileName(b, n) : n \in 1..MaxPages}

\* C32: /delete-last called with the raw parameter p deletes only cached
\* pages of the upload session whose basename is exactly p; the pages of any
\* other session (one that has the sanitized p as a prefix, or that equals p
\* only after sanitization) are left unchanged.
C32_DeletesOnlyOwnPages ==
    fn.op = "delete" =>
        \A p \in Papers : \A e \in fn.before[p] :
            e \notin fn.dirs[p] => e.name \in C32_PagesOf(fn.raw)

(***************************************************************************)
(* The rows of the ledger.                                                 *)
(***************************************************************************)
\* C33: after any sequence of /transaction/create and /transaction/update
\* requests every ledger row has Amount >= 0 and a Status among pending,
\* printing, completed and cancelled.
C33_RowsInRange ==
    \A i \in DOMAIN ledger :
        /\ ledger[i].Amount >= 0
        /\ ledger[i].Status \in {"pending", "printing", "completed", "cancelled"}

(***************************************************************************)
(* Two "bw" cost requests for one page.                                    *)
(***************************************************************************)
\* Request r answers in this step.
C34_Answers(r) == cost[r].pc \notin {"idle", "done"} /\ cost'[r].pc = "done"

\* No cost request is being handled.
C34_Quiet == \A r \in CostIds : cost[r].pc \in {"idle", "done"}

\* C34: when "bw" cost requests for the same basename, partition and page run
\* beside one another (no upload and no cleanup under way), each answers
\* success with the totalCost a single such request gets, and once they have
\* answered the cached page is a complete grayscale image and no temporary
\* file is left in the partition.
C34_ConcurrentBwSucceed ==
    [][/\ \A r \in CostIds :
             (cost[r].color = "bw" /\ C34_Answers(r)) =>
                 /\ sent'.success
                 /\ sent'.totalCost = TotalCost("bw", cost[r].totalPages, 0, sent'.copies)
       /\ C34_Quiet' =>
             \A m \in history'.bw :
                 /\ Readable(cache'[m[1]], m[2])
                 /\ C6_IsGray(EntryOf(cache'[m[1]], m[2]).img)
                 /\ ~HasFile(cache'[m[1]], TmpName(m[2]))]_vars

(***************************************************************************)
(* The basename the upload page keeps.                                     *)
(***************************************************************************)
\* C35: in the browser client, after a successful upload answer has been
\* handled, lastUploadedBaseName is that upload's baseName and the settings
\* are enabled until the user next resets or uploads; a reset whose cleanup
\* request is still in flight when a new upload completes does not erase the
\* new upload's baseName.
C35_BaseNameKept ==
    (page.name = "app" /\ page.handled # NoBaseName) =>
        /\ page.lastUploadedBaseName = page.handled
        /\ ~page.disabled

=============================================================================
